---- MODULE Spec2Model ----
(***************************************************************************)
(* Model of the samples module of the ERP backend: the tables of           *)
(* modules/samples/models/sample.py as the committed database state and    *)
(* the route handlers of modules/samples/routes/samples.py as actions.     *)
(*                                                                         *)
(* A table is a function from the stored ids to rows; a row is a record of *)
(* the modelled columns.  A request payload is a function from the fields  *)
(* the caller set to their values, so that model_dump() (defaults filled   *)
(* in) and model_dump(exclude_unset=True) (only the set fields) differ.    *)
(* Strings that the code formats are sequences of tokens.                  *)
(***************************************************************************)
EXTENDS Integers, Sequences, FiniteSets, TLC

VARIABLES
    styles,         \* style_summaries: id -> row
    variants,       \* style_variants: id -> row
    colorParts,     \* style_variant_colors: id -> row
    samples,        \* samples: id -> row
    operations,     \* sample_operations: id -> row
    plans,          \* sample_plan: id -> row
    materials,      \* required_materials: id -> row
    tnas,           \* sample_tna: id -> row
    opTypes,        \* operation_types: id -> row
    smvs,           \* smv_calculations: id -> row
    seq,            \* the autoincrement sequence of each table: next id to hand out
    reqs,           \* requests in flight (handlers between two statements)
    last,           \* the last request handled and its response
    deletedStyles,  \* history: ids whose delete_style returned 204
    sessions,       \* the database sessions get_db handed out: request -> session
    boot            \* init_db: where its loops stand

vars == <<styles, variants, colorParts, samples, operations, plans, materials, tnas,
          opTypes, smvs, seq, reqs, last, deletedStyles, sessions, boot>>

(***************************************************************************)
(* Bounds of the model.                                                    *)
(***************************************************************************)
MaxStyleId == 2
MaxVariantId == 2
MaxPartId == 2
MaxSampleId == 2
MaxLifecycleSampleId == 1
MaxOperationId == 2
MaxOpTypeId == 1
MaxPutOperationId == 1
MaxDeleteSampleId == 2
MaxDeleteOperationId == 2
MaxDeleteVariantId == 2
MaxDeletePartId == 2
MaxDeleteMaterialId == 1
MaxFailCreated == 4
MaxFailId == 2
MaxLookupCreated == 3
MaxLookupId == 2
MaxUpdateClients == 2
MaxUpdateSampleId == 1
MaxRequests == 2
MaxPathLen == 2
MaxListStyleId == 3
MaxSmvId == 2
MaxSmvSampleId == 1
MaxSmvOperationId == 1
MaxRoundSampleId == 2
MaxDerivedStyleId == 2
MaxDerivedVariantId == 2
MaxListSampleId == 2
MaxFrameSampleId == 2
MaxPlanId == 2
MaxPlanClients == 2
MaxRaceStyleId == 2
MaxRaceClients == 1
MaxRaceDependents == 1
MaxColorVariantId == 2
MaxMergeRows == 1
MaxMergeVariantId == 2
MaxMergePartId == 2
MaxRound == 3

(***************************************************************************)
(* Values.                                                                 *)
(***************************************************************************)
\* SQL NULL / Python None of a string column.
NULL == "NULL"
\* An optional number: <<>> is None, <<n>> is n.
None == << >>
Some(n) == <<n>>

Range(f) == {f[x] : x \in DOMAIN f}
Insert(table, id, row) == (id :> row) @@ table
Remove(table, id) == [i \in DOMAIN table \ {id} |-> table[i]]
\* setattr(row, key, value) for every item of a dict
Merge(row, dict) == [f \in DOMAIN row |-> IF f \in DOMAIN dict THEN dict[f] ELSE row[f]]
\* pydantic's model_dump(): every field, defaults where the caller set none
Dump(payload, defaults) == Merge(defaults, payload)
\* all functions from a subset of the fields to their values
RECURSIVE Product(_, _)
Product(fields, values) ==
    IF fields = {} THEN {<< >>}
    ELSE LET f == CHOOSE x \in fields : TRUE
         IN  {(f :> v) @@ r : v \in values[f], r \in Product(fields \ {f}, values)}
Payloads(required, optional, values) ==
    UNION {Product(required \cup S, values) : S \in SUBSET optional}

\* The response of a handler, with the request it answers.
Resp(op, id, code, body) == [op |-> op, id |-> id, code |-> code, body |-> body]
NoBody == [kind |-> "none"]

(***************************************************************************)
(* StyleSummary.                                                           *)
(***************************************************************************)
StyleFields == {"buyer_id", "style_name", "style_id", "product_category", "gauge"}
StyleRequired == {"buyer_id", "style_name", "style_id"}
StyleDefaults ==
    [buyer_id |-> 0, style_name |-> NULL, style_id |-> NULL,
     product_category |-> NULL, gauge |-> NULL]

\* unique=True on style_summaries.style_id
StyleIdTaken(sid, except) ==
    \E i \in DOMAIN styles \ except : styles[i].style_id = sid

SamplesOfStyle(id) == {i \in DOMAIN samples : samples[i].style_id = id}
VariantsOfStyle(id) == {i \in DOMAIN variants : variants[i].style_summary_id = id}

(***************************************************************************)
(* Inputs of the style catalog.                                            *)
(***************************************************************************)
StyleValues ==
    [buyer_id |-> {1}, style_name |-> {"Polo"}, style_id |-> {"PS-001", "PS-002"},
     product_category |-> {"Knit"}, gauge |-> {"12GG"}]
StyleCreatePayloads == Payloads(StyleRequired, {}, StyleValues)

(***************************************************************************)
(* StyleVariant and VariantColorPart.                                      *)
(***************************************************************************)
VariantRequired == {"style_summary_id", "style_name", "style_id", "colour_name"}
VariantDefaults ==
    [style_summary_id |-> 0, style_name |-> NULL, style_id |-> NULL, colour_name |-> NULL,
     is_multicolor |-> FALSE, display_name |-> NULL, color_parts |-> <<>>]
\* the columns of style_variants: color_parts is a relationship, not a column
VariantColumns == DOMAIN VariantDefaults \ {"color_parts"}

PartsOfVariant(id) == {i \in DOMAIN colorParts : colorParts[i].style_variant_id = id}
MaterialsOfVariant(id) == {i \in DOMAIN materials : materials[i].style_variant_id = id}

(***************************************************************************)
(* Sample.                                                                 *)
(***************************************************************************)
REJECT_REMAKE == "Reject and Request for remake"
SampleRequired == {"sample_id", "buyer_id", "style_id", "sample_type"}
SampleDefaults ==
    [sample_id |-> NULL, buyer_id |-> 0, style_id |-> 0, sample_type |-> NULL,
     worksheet_rcv_date |-> NULL, notes |-> NULL, round |-> 1, submit_status |-> NULL]
\* unique=True on samples.sample_id
SampleIdTaken(sid) == \E i \in DOMAIN samples : samples[i].sample_id = sid

(***************************************************************************)
(* The database's constraints, checked when a statement is flushed.        *)
(***************************************************************************)
\* mutant: style_id declared without unique=True
StyleRowOk_NotUnique(row, except) ==
    /\ row.style_name # NULL
    /\ row.style_id # NULL

\* style_summaries: NOT NULL columns and the unique style_id
StyleRowOk(row, except) ==
    /\ row.style_name # NULL
    /\ row.style_id # NULL
    /\ ~StyleIdTaken(row.style_id, except)
\* style_variants: NOT NULL columns and ForeignKey("style_summaries.id")
VariantRowOk(row) ==
    /\ row.style_name # NULL
    /\ row.style_id # NULL
    /\ row.colour_name # NULL
    /\ row.style_summary_id \in DOMAIN styles
\* style_variant_colors: ForeignKey("style_variants.id")
PartRowOk(row) == row.style_variant_id \in DOMAIN variants
\* samples: NOT NULL columns, unique sample_id, ForeignKey("style_summaries.id")
SampleInsertOk(row) ==
    /\ row.sample_type # NULL
    /\ ~SampleIdTaken(row.sample_id)
    /\ row.style_id \in DOMAIN styles
\* mutant: the tables carry no foreign keys to style_summaries
StyleDeleteOk_NoForeignKeys(id) == id \in DOMAIN styles

\* DELETE FROM style_summaries: refused while a samples or style_variants row
\* references the style (both foreign keys are NOT NULL and do not cascade)
StyleDeleteOk(id) ==
    /\ id \in DOMAIN styles
    /\ SamplesOfStyle(id) = {}
    /\ VariantsOfStyle(id) = {}

(***************************************************************************)
(* The state after construction: empty tables, fresh sequences.            *)
(***************************************************************************)
Empty == [i \in {} |-> 0]

Init ==
    /\ styles = Empty
    /\ variants = Empty
    /\ colorParts = Empty
    /\ samples = Empty
    /\ operations = Empty
    /\ plans = Empty
    /\ materials = Empty
    /\ tnas = Empty
    /\ opTypes = Empty
    /\ smvs = Empty
    /\ seq = [styles |-> 1, variants |-> 1, parts |-> 1, samples |-> 1,
              operations |-> 1, plans |-> 1, materials |-> 1, tnas |-> 1, opTypes |-> 1,
              smvs |-> 1]
    /\ reqs = Empty
    /\ last = Resp("none", 0, 0, NoBody)
    /\ deletedStyles = {}
    /\ sessions = Empty
    /\ boot = [db |-> 1, attempt |-> 0, tried |-> <<0, 0, 0, 0, 0>>,
               sleeps |-> <<0, 0, 0, 0, 0>>, waited |-> 0, status |-> "running"]

\* mutant: the next id is one more than the largest id stored (ids come back
\* after a delete of the newest row)
NextId_MaxPlusOne(table) ==
    LET ids == CASE table = "styles" -> DOMAIN styles
                 [] table = "variants" -> DOMAIN variants
                 [] table = "parts" -> DOMAIN colorParts
                 [] table = "samples" -> DOMAIN samples
                 [] table = "operations" -> DOMAIN operations
                 [] OTHER -> DOMAIN plans
    IN  IF ids = {} THEN 1 ELSE 1 + CHOOSE m \in ids : \A i \in ids : i <= m

\* id = Column(Integer, primary_key=True, autoincrement=True): the sequence only
\* moves forward, so an id is handed out once
NextId(table) == seq[table]
Advance(table) == [seq EXCEPT ![table] = @ + 1]

(***************************************************************************)
(* Style summary endpoints.                                                *)
(***************************************************************************)
\* POST /styles.  No try/except: a constraint violation at commit surfaces as
\* a 500 and the session is discarded.
create_style(p) ==
    LET row == Dump(p, StyleDefaults)
        id == NextId("styles")
    IN  /\ IF StyleRowOk(row, {})
           THEN /\ styles' = Insert(styles, id, row)
                /\ seq' = Advance("styles")
                /\ last' = Resp("create_style", id, 201, [kind |-> "style", row |-> row])
           ELSE /\ last' = Resp("create_style", 0, 500, NoBody)
                /\ UNCHANGED <<styles, seq>>
        /\ UNCHANGED <<variants, colorParts, samples, operations, materials, tnas, opTypes, plans, reqs, deletedStyles,
                   smvs, sessions, boot>>

\* GET /styles/{style_id}
get_style_response(id) ==
    IF id \in DOMAIN styles
    THEN Resp("get_style", id, 200, [kind |-> "style", row |-> styles[id]])
    ELSE Resp("get_style", id, 404, NoBody)

get_style(id) ==
    /\ last' = get_style_response(id)
    /\ UNCHANGED <<styles, variants, colorParts, samples, operations, materials, tnas, opTypes, plans, seq, reqs,
                   deletedStyles, smvs, sessions, boot>>

\* the detail of a 400: f"Cannot delete style. {count} {what} are using this style."
Blocked(what, count) == [kind |-> "blocked", what |-> what, count |-> count]

\* mutant: the style variants are not counted
delete_style_checks_NoVariantCount(id, found, ns, nv) ==
    IF ~found THEN Resp("delete_style", id, 404, NoBody)
    ELSE IF ns > 0 THEN Resp("delete_style", id, 400, Blocked("sample(s)", ns))
    ELSE Resp("delete_style", id, 204, NoBody)

\* DELETE /styles/{style_id}: the lookup and the two count checks that precede
\* db.delete; ns and nv are the results of the two count queries
delete_style_checks(id, found, ns, nv) ==
    IF ~found THEN Resp("delete_style", id, 404, NoBody)
    ELSE IF ns > 0 THEN Resp("delete_style", id, 400, Blocked("sample(s)", ns))
    ELSE IF nv > 0 THEN Resp("delete_style", id, 400, Blocked("style variant(s)", nv))
    ELSE Resp("delete_style", id, 204, NoBody)

\* db.delete(style); db.commit(): the DELETE is refused by the database when a
\* row still references the style, and the exception surfaces as a 500
\* (a DELETE that matches no row, the style being gone already, changes nothing;
\* whether the ORM lets it pass or raises is not decided by this code)
delete_style_commit(id) ==
    IF id \notin DOMAIN styles
    THEN /\ \E code \in {204, 500} : last' = Resp("delete_style", id, code, NoBody)
         /\ UNCHANGED <<styles, deletedStyles>>
    ELSE IF StyleDeleteOk(id)
    THEN /\ styles' = Remove(styles, id)
         /\ deletedStyles' = deletedStyles \cup {id}
         /\ last' = Resp("delete_style", id, 204, NoBody)
    ELSE /\ last' = Resp("delete_style", id, 500, NoBody)
         /\ UNCHANGED <<styles, deletedStyles>>

delete_style(id) ==
    LET r == delete_style_checks(id, id \in DOMAIN styles,
                                 Cardinality(SamplesOfStyle(id)),
                                 Cardinality(VariantsOfStyle(id)))
    IN  /\ IF r.code = 204
           THEN delete_style_commit(id)
           ELSE last' = r /\ UNCHANGED <<styles, deletedStyles>>
        /\ UNCHANGED <<variants, colorParts, samples, operations, materials, tnas, opTypes, plans, seq, reqs,
                   smvs, sessions, boot>>

(***************************************************************************)
(* Style variant endpoints.                                                *)
(***************************************************************************)
\* variant_data.model_dump(exclude={'color_parts'})
variant_dict(p) == [f \in VariantColumns |-> Dump(p, VariantDefaults)[f]]

\* mutant: the color_parts of the payload are written as rows of the new variant
create_style_variant_rows_WithParts(p, id) ==
    LET given == IF "color_parts" \in DOMAIN p THEN p.color_parts ELSE << >>
        rows == [k \in {seq["parts"] + i - 1 : i \in DOMAIN given} |->
                    [style_variant_id |-> id,
                     part_name |-> given[k - seq["parts"] + 1].part_name,
                     colour_name |-> given[k - seq["parts"] + 1].colour_name,
                     sort_order |-> given[k - seq["parts"] + 1].sort_order]]
    IN  [variants |-> Insert(variants, id, variant_dict(p)), colorParts |-> rows @@ colorParts]

\* the rows db.add(new_variant); db.commit() writes: the variant's columns only
create_style_variant_rows(p, id) ==
    [variants |-> Insert(variants, id, variant_dict(p)), colorParts |-> colorParts]

\* POST /style-variants.  try/except: any exception -> rollback, 500.
create_style_variant(p) ==
    LET id == NextId("variants")
        new == create_style_variant_rows(p, id)
    IN  /\ IF VariantRowOk(variant_dict(p))
           THEN /\ variants' = new.variants
                /\ colorParts' = new.colorParts
                /\ seq' = Advance("variants")
                /\ last' = Resp("create_style_variant", id, 201,
                                [kind |-> "variant", payload |-> p])
           ELSE /\ last' = Resp("create_style_variant", 0, 500, NoBody)
                /\ UNCHANGED <<variants, colorParts, seq>>
        /\ UNCHANGED <<styles, samples, operations, materials, tnas, opTypes, plans, reqs, deletedStyles,
                   smvs, sessions, boot>>

\* DELETE FROM style_variants: refused while a required_materials row references
\* the variant (StyleVariant.materials has no cascade, the foreign key is NOT
\* NULL); style_variant_colors rows go with the variant
VariantDeleteOk(id) == MaterialsOfVariant(id) = {}

\* mutant: the colour parts are deleted in a commit of their own, before the
\* variant's DELETE is attempted
delete_style_variant_PartsCommittedFirst(id) ==
    /\ IF id \notin DOMAIN variants
       THEN /\ last' = Resp("delete_style_variant", id, 404, NoBody)
            /\ UNCHANGED <<variants, colorParts>>
       ELSE /\ colorParts' = [i \in DOMAIN colorParts \ PartsOfVariant(id) |-> colorParts[i]]
            /\ IF VariantDeleteOk(id)
               THEN /\ variants' = Remove(variants, id)
                    /\ last' = Resp("delete_style_variant", id, 204, NoBody)
               ELSE /\ last' = Resp("delete_style_variant", id, 500, NoBody)
                    /\ UNCHANGED variants
    /\ UNCHANGED <<styles, samples, operations, materials, tnas, opTypes, plans, seq, reqs,
                   deletedStyles, smvs, sessions, boot>>

\* DELETE /style-variants/{variant_id}: color_parts is cascade="all, delete-orphan".
\* No try/except: a failed commit surfaces as a 500.
delete_style_variant(id) ==
    /\ IF id \notin DOMAIN variants
       THEN /\ last' = Resp("delete_style_variant", id, 404, NoBody)
            /\ UNCHANGED <<variants, colorParts>>
       ELSE IF VariantDeleteOk(id)
       THEN /\ variants' = Remove(variants, id)
            /\ colorParts' = [i \in DOMAIN colorParts \ PartsOfVariant(id) |-> colorParts[i]]
            /\ last' = Resp("delete_style_variant", id, 204, NoBody)
       ELSE /\ last' = Resp("delete_style_variant", id, 500, NoBody)
            /\ UNCHANGED <<variants, colorParts>>
    /\ UNCHANGED <<styles, samples, operations, materials, tnas, opTypes, plans, seq, reqs,
                   deletedStyles, smvs, sessions, boot>>

(***************************************************************************)
(* Sample endpoints.                                                       *)
(***************************************************************************)
\* POST /.  try/except: any exception -> rollback, 500.
create_sample(p) ==
    LET row == Dump(p, SampleDefaults)
        id == NextId("samples")
    IN  /\ IF SampleInsertOk(row)
           THEN /\ samples' = Insert(samples, id, row)
                /\ seq' = Advance("samples")
                /\ last' = Resp("create_sample", id, 201, [kind |-> "sample", row |-> row])
           ELSE /\ last' = Resp("create_sample", 0, 500, NoBody)
                /\ UNCHANGED <<samples, seq>>
        /\ UNCHANGED <<styles, variants, colorParts, operations, materials, tnas, opTypes, plans, reqs, deletedStyles,
                   smvs, sessions, boot>>

OperationsOfSample(id) == {i \in DOMAIN operations : operations[i].sample_id = id}

\* DELETE /{sample_id}.  Sample.operations has no cascade and
\* sample_operations.sample_id is a NOT NULL foreign key: the flush fails while
\* an operation references the sample.
delete_sample(id) ==
    /\ IF id \notin DOMAIN samples
       THEN last' = Resp("delete_sample", id, 404, NoBody) /\ UNCHANGED samples
       ELSE IF OperationsOfSample(id) = {}
       THEN /\ samples' = Remove(samples, id)
            /\ last' = Resp("delete_sample", id, 204, NoBody)
       ELSE last' = Resp("delete_sample", id, 500, NoBody) /\ UNCHANGED samples
    /\ UNCHANGED <<styles, variants, colorParts, operations, materials, tnas, opTypes, plans, seq, reqs, deletedStyles,
                   smvs, sessions, boot>>

(***************************************************************************)
(* The style catalog with its dependents, one request at a time.           *)
(***************************************************************************)
StyleIds == 1..MaxStyleId
VariantValues ==
    [style_summary_id |-> StyleIds, style_name |-> {"Polo"}, style_id |-> {"PS-001"},
     colour_name |-> {"Navy"}]
CatalogVariantPayloads == Payloads(VariantRequired, {}, VariantValues)
SampleValues ==
    [sample_id |-> {"SMP-1", "SMP-2"}, buyer_id |-> {1}, style_id |-> StyleIds,
     sample_type |-> {"Proto"}]
CatalogSamplePayloads == Payloads(SampleRequired, {}, SampleValues)

Next ==
    \/ \E p \in StyleCreatePayloads : NextId("styles") <= MaxStyleId /\ create_style(p)
    \/ \E id \in StyleIds : get_style(id)
    \/ \E id \in StyleIds : delete_style(id)
    \/ \E p \in CatalogVariantPayloads :
          NextId("variants") <= MaxVariantId /\ create_style_variant(p)
    \/ \E id \in 1..MaxVariantId : delete_style_variant(id)
    \/ \E p \in CatalogSamplePayloads : NextId("samples") <= MaxSampleId /\ create_sample(p)
    \/ \E id \in 1..MaxSampleId : delete_sample(id)

Spec == Init /\ [][Next]_vars

(***************************************************************************)
(* C5.  delete_style on a style with dependents.                           *)
(***************************************************************************)
\* the count a 400 detail reports for one kind of dependent, None if it names none
Reported(body, what) ==
    IF body.kind = "blocked" /\ body.what = what THEN Some(body.count) ELSE None

HasDependents(id) ==
    id \in DOMAIN styles /\ (SamplesOfStyle(id) # {} \/ VariantsOfStyle(id) # {})

CatalogUnchanged == UNCHANGED <<styles, variants, colorParts, samples, deletedStyles>>

\* C5 as stated: a delete_style on a style with at least one dependent Sample
\* or StyleVariant answers 400, reports the exact count of the dependent Samples
\* and the exact count of the dependent StyleVariants (each kind that has any),
\* and leaves the style and its dependents stored unchanged.
C5_BlockedReportsEachCount ==
    [][\A id \in StyleIds :
        (HasDependents(id) /\ last'.op = "delete_style" /\ last'.id = id /\ delete_style(id)) =>
            /\ last'.code = 400
            /\ SamplesOfStyle(id) # {} =>
                 Reported(last'.body, "sample(s)") = Some(Cardinality(SamplesOfStyle(id)))
            /\ VariantsOfStyle(id) # {} =>
                 Reported(last'.body, "style variant(s)")
                     = Some(Cardinality(VariantsOfStyle(id)))
            /\ CatalogUnchanged]_vars

\* C5 amended: a delete_style on a style with at least one dependent answers
\* 400 and reports one exact count: that of the dependent Samples when there is
\* any, otherwise that of the dependent StyleVariants; the style and all its
\* dependents stay stored unchanged.
C5_BlockedReportsFirstCount ==
    [][\A id \in StyleIds :
        (HasDependents(id) /\ last'.op = "delete_style" /\ last'.id = id /\ delete_style(id)) =>
            /\ last'.code = 400
            /\ last'.body =
                 IF SamplesOfStyle(id) # {}
                 THEN Blocked("sample(s)", Cardinality(SamplesOfStyle(id)))
                 ELSE Blocked("style variant(s)", Cardinality(VariantsOfStyle(id)))
            /\ CatalogUnchanged]_vars

\* a blocked delete of a style that has both Samples and StyleVariants
C5_Witness ==
    /\ last.op = "delete_style" /\ last.code = 400
    /\ last.body = Blocked("sample(s)", 2)
    /\ Cardinality(SamplesOfStyle(last.id)) = 2
    /\ VariantsOfStyle(last.id) # {}

(***************************************************************************)
(* C6.  delete_style on a style without dependents.                        *)
(***************************************************************************)
\* C6: a delete_style on a stored style with no dependent Sample and no
\* dependent StyleVariant answers 204 and removes the style, and in every later
\* state get_style for that id answers 404: the id is never handed out again.
C6_DeletedStaysUnreadable ==
    /\ [][\A id \in StyleIds :
            (id \in DOMAIN styles /\ ~HasDependents(id) /\ last'.op = "delete_style"
                /\ last'.id = id /\ delete_style(id)) =>
                /\ last' = Resp("delete_style", id, 204, NoBody)
                /\ id \notin DOMAIN styles'
                /\ id \in deletedStyles']_vars
    /\ [](\A id \in deletedStyles : get_style_response(id).code = 404)

\* a get_style of a deleted id answers 404 after a later style was created
C6_Witness ==
    \E id \in deletedStyles :
        /\ last = Resp("get_style", id, 404, NoBody)
        /\ \E j \in DOMAIN styles : j > id

(***************************************************************************)
(* Sample lifecycle: PUT /{sample_id}.                                     *)
(***************************************************************************)
\* sample_data.<field>: the value set by the caller, the schema default otherwise
Attr(p, f, default) == IF f \in DOMAIN p THEN p[f] ELSE default

\* mutant: every status that starts with "Reject" counts as a remake
bump_round_AnyReject(row, p) ==
    IF Attr(p, "submit_status", NULL) \in {REJECT_REMAKE, "Reject & Drop"}
    THEN [row EXCEPT !.round = @ + 1]
    ELSE row

\* if sample_data.submit_status == "Reject and Request for remake": sample.round += 1
bump_round(row, p) ==
    IF Attr(p, "submit_status", NULL) = REJECT_REMAKE
    THEN [row EXCEPT !.round = @ + 1]
    ELSE row

\* the row update_sample flushes: the round rule, then the fields the caller set
\* (model_dump(exclude_unset=True))
update_sample_row(row, p) == Merge(bump_round(row, p), p)

\* UPDATE samples: sample_type is NOT NULL
SampleUpdateOk(row) == row.sample_type # NULL

\* mutant: no "except HTTPException: raise", so the 404 raised inside the try
\* is caught by "except Exception" and answered 500
update_sample_NoReraise(id, p) ==
    /\ IF id \notin DOMAIN samples
       THEN last' = Resp("update_sample", id, 500, NoBody) /\ UNCHANGED samples
       ELSE LET row == update_sample_row(samples[id], p)
            IN  IF SampleUpdateOk(row)
                THEN /\ samples' = [samples EXCEPT ![id] = row]
                     /\ last' = Resp("update_sample", id, 200, [kind |-> "sample", row |-> row])
                ELSE last' = Resp("update_sample", id, 500, NoBody) /\ UNCHANGED samples
    /\ UNCHANGED <<styles, variants, colorParts, operations, materials, tnas, opTypes, plans,
                   seq, reqs, deletedStyles, smvs, sessions, boot>>

\* PUT /{sample_id}.  try/except: HTTPException re-raised, any other exception
\* -> rollback, 500.
update_sample(id, p) ==
    /\ IF id \notin DOMAIN samples
       THEN last' = Resp("update_sample", id, 404, NoBody) /\ UNCHANGED samples
       ELSE LET row == update_sample_row(samples[id], p)
            IN  IF SampleUpdateOk(row)
                THEN /\ samples' = [samples EXCEPT ![id] = row]
                     /\ last' = Resp("update_sample", id, 200, [kind |-> "sample", row |-> row])
                ELSE last' = Resp("update_sample", id, 500, NoBody) /\ UNCHANGED samples
    /\ UNCHANGED <<styles, variants, colorParts, operations, materials, tnas, opTypes, plans, seq, reqs, deletedStyles,
                   smvs, sessions, boot>>

SampleIds == 1..MaxLifecycleSampleId
LifecycleStylePayloads == Payloads(StyleRequired, {}, [StyleValues EXCEPT !.style_id = {"PS-001"}])
LifecycleSampleValues ==
    [sample_id |-> {"SMP-1", "SMP-2"}, buyer_id |-> {1}, style_id |-> {1},
     sample_type |-> {"Proto"}, worksheet_rcv_date |-> {"2024-01-01"}]
LifecycleSamplePayloads ==
    Payloads(SampleRequired, {"worksheet_rcv_date"}, LifecycleSampleValues)
SampleUpdateValues ==
    [sample_type |-> {"Fit", NULL},
     submit_status |-> {REJECT_REMAKE, "Approve", "Reject & Drop", NULL}]
SampleUpdatePayloads == Payloads({}, {"sample_type", "submit_status"}, SampleUpdateValues)

\* round is unbounded in the code: the model stops remaking at MaxRound
RoundBelowCap(id, p) ==
    id \in DOMAIN samples => update_sample_row(samples[id], p).round <= MaxRound

NextSample ==
    \/ \E p \in LifecycleStylePayloads : styles = Empty /\ create_style(p)
    \/ \E p \in LifecycleSamplePayloads :
          NextId("samples") <= MaxLifecycleSampleId /\ create_sample(p)
    \/ \E id \in SampleIds, p \in SampleUpdatePayloads :
          RoundBelowCap(id, p) /\ update_sample(id, p)

SpecSample == Init /\ [][NextSample]_vars

(***************************************************************************)
(* C1.  The round rule of update_sample.                                   *)
(***************************************************************************)
RoundStep(p) == IF Attr(p, "submit_status", NULL) = REJECT_REMAKE THEN 1 ELSE 0

\* C1 as stated: for every stored Sample and every update_sample request on
\* it, round after the request is round before plus 1 when the request's
\* submit_status is exactly "Reject and Request for remake", and round before
\* for every other submit_status (absent, null or any other string).
C1_RoundRuleEveryRequest ==
    [][\A id \in SampleIds, p \in SampleUpdatePayloads :
        (id \in DOMAIN samples /\ last'.op = "update_sample" /\ last'.id = id
            /\ update_sample(id, p)) =>
            samples'[id].round = samples[id].round + RoundStep(p)]_vars

\* C1 amended: the rule holds for every update_sample request that commits
\* (answers 200); a request that fails (500) leaves round unchanged, whatever
\* its submit_status.
C1_RoundRuleCommitted ==
    [][\A id \in SampleIds, p \in SampleUpdatePayloads :
        (id \in DOMAIN samples /\ last'.op = "update_sample" /\ last'.id = id
            /\ update_sample(id, p)) =>
            /\ last'.code \in {200, 500}
            /\ last'.code = 200 =>
                 samples'[id].round = samples[id].round + RoundStep(p)
            /\ last'.code = 500 => samples'[id].round = samples[id].round]_vars

\* a sample remade twice and then approved: round 3, status "Approve"
C1_Witness ==
    /\ last.op = "update_sample" /\ last.code = 200
    /\ last.id \in DOMAIN samples
    /\ samples[last.id].round = 3
    /\ samples[last.id].submit_status = "Approve"

(***************************************************************************)
(* Sample operations: POST /operations, PUT /operations/{operation_id}.    *)
(* Durations are minutes, modelled as integers.                            *)
(***************************************************************************)
OperationRequired == {"sample_id", "operation_type", "name_of_operation"}
OperationDefaults ==
    [sample_id |-> 0, operation_type |-> NULL, name_of_operation |-> NULL,
     number_of_operation |-> 1, size |-> NULL, duration |-> None, total_duration |-> None]

\* Python truth of an Optional[float]: None and 0.0 are false
TruthyOpt(x) == x # None /\ x[1] # 0

\* operation_dict = model_dump();
\* if operation_dict.get('duration') and operation_dict.get('number_of_operation'):
\*     operation_dict['total_duration'] = duration * number_of_operation
operation_dict(p) ==
    LET d == Dump(p, OperationDefaults)
    IN  IF TruthyOpt(d.duration) /\ d.number_of_operation # 0
        THEN [d EXCEPT !.total_duration = Some(d.duration[1] * d.number_of_operation)]
        ELSE d

\* sample_operations.sample_id: ForeignKey("samples.id"), NOT NULL
OperationRowOk(row) == row.sample_id \in DOMAIN samples

\* POST /operations.  No try/except: a failed commit surfaces as a 500.
create_sample_operation(p) ==
    LET row == operation_dict(p)
        id == NextId("operations")
    IN  /\ IF OperationRowOk(row)
           THEN /\ operations' = Insert(operations, id, row)
                /\ seq' = Advance("operations")
                /\ last' = Resp("create_sample_operation", id, 201,
                                [kind |-> "operation", row |-> row])
           ELSE /\ last' = Resp("create_sample_operation", 0, 500, NoBody)
                /\ UNCHANGED <<operations, seq>>
        /\ UNCHANGED <<styles, variants, colorParts, samples, plans, materials, tnas, opTypes, reqs, deletedStyles,
                   smvs, sessions, boot>>

\* mutant: the row is merged with the fields the caller set only
sample_operation_overwrite_SetFieldsOnly(row, p) == Merge(row, p)

\* for key, value in operation_dict.items(): setattr(operation, key, value)
sample_operation_overwrite(row, p) == Merge(row, operation_dict(p))

\* PUT /operations/{operation_id}: every key of the dict is set on the row
update_sample_operation(id, p) ==
    /\ IF id \notin DOMAIN operations
       THEN last' = Resp("update_sample_operation", id, 404, NoBody) /\ UNCHANGED operations
       ELSE LET row == sample_operation_overwrite(operations[id], p)
            IN  IF OperationRowOk(row)
                THEN /\ operations' = [operations EXCEPT ![id] = row]
                     /\ last' = Resp("update_sample_operation", id, 200,
                                     [kind |-> "operation", row |-> row])
                ELSE /\ last' = Resp("update_sample_operation", id, 500, NoBody)
                     /\ UNCHANGED operations
    /\ UNCHANGED <<styles, variants, colorParts, samples, plans, materials, tnas, opTypes, seq, reqs, deletedStyles,
                   smvs, sessions, boot>>

\* operation_types (the operations master): both columns NOT NULL
OpTypeRequired == {"operation_type", "operation_name"}
OpTypeDefaults == [operation_type |-> NULL, operation_name |-> NULL]
OpTypeRowOk(row) == row.operation_type # NULL /\ row.operation_name # NULL

\* POST /operations-master.  No try/except.
create_operation_type(p) ==
    LET row == Dump(p, OpTypeDefaults)
        id == NextId("opTypes")
    IN  /\ IF OpTypeRowOk(row)
           THEN /\ opTypes' = Insert(opTypes, id, row)
                /\ seq' = Advance("opTypes")
                /\ last' = Resp("create_operation_type", id, 201,
                                [kind |-> "opType", row |-> row])
           ELSE /\ last' = Resp("create_operation_type", 0, 500, NoBody)
                /\ UNCHANGED <<opTypes, seq>>
        /\ UNCHANGED <<styles, variants, colorParts, samples, operations, plans, materials,
                       tnas, reqs, deletedStyles, smvs, sessions, boot>>

\* PUT /operations-master/{operation_id}: every key of model_dump() is set
update_operation_type(id, p) ==
    /\ IF id \notin DOMAIN opTypes
       THEN last' = Resp("update_operation_type", id, 404, NoBody) /\ UNCHANGED opTypes
       ELSE LET row == Merge(opTypes[id], Dump(p, OpTypeDefaults))
            IN  IF OpTypeRowOk(row)
                THEN /\ opTypes' = [opTypes EXCEPT ![id] = row]
                     /\ last' = Resp("update_operation_type", id, 200,
                                     [kind |-> "opType", row |-> row])
                ELSE /\ last' = Resp("update_operation_type", id, 500, NoBody)
                     /\ UNCHANGED opTypes
    /\ UNCHANGED <<styles, variants, colorParts, samples, operations, plans, materials,
                   tnas, seq, reqs, deletedStyles, smvs, sessions, boot>>

\* DELETE /operations-master/{operation_id}
delete_operation_type(id) ==
    /\ IF id \in DOMAIN opTypes
       THEN /\ opTypes' = Remove(opTypes, id)
            /\ last' = Resp("delete_operation_type", id, 204, NoBody)
       ELSE /\ last' = Resp("delete_operation_type", id, 404, NoBody)
            /\ UNCHANGED opTypes
    /\ UNCHANGED <<styles, variants, colorParts, samples, operations, plans, materials,
                   tnas, seq, reqs, deletedStyles, smvs, sessions, boot>>

OperationIds == 1..MaxOperationId
OpTypeIds == 1..MaxOpTypeId
OpTypePayloads ==
    Payloads(OpTypeRequired, {},
             [operation_type |-> {"Knitting"}, operation_name |-> {"Front Part", "Sleeve"}])
OperationValues ==
    [sample_id |-> {1, 2}, operation_type |-> {"Knitting"}, name_of_operation |-> {"Front Part"},
     number_of_operation |-> {0, 3}, duration |-> {Some(0), Some(2)},
     total_duration |-> {Some(7)}]
OperationPayloads ==
    Payloads(OperationRequired, {"number_of_operation", "duration", "total_duration"},
             OperationValues)
TimingSamplePayloads ==
    Payloads(SampleRequired, {}, [LifecycleSampleValues EXCEPT !.sample_id = {"SMP-1"}])

NextOps ==
    \/ \E p \in LifecycleStylePayloads : styles = Empty /\ create_style(p)
    \/ \E p \in TimingSamplePayloads : samples = Empty /\ create_sample(p)
    \/ \E p \in OperationPayloads :
          NextId("operations") <= MaxOperationId /\ create_sample_operation(p)
    \/ \E id \in OperationIds, p \in OperationPayloads : update_sample_operation(id, p)

SpecOps == Init /\ [][NextOps]_vars

(***************************************************************************)
(* C4.  total_duration of a stored SampleOperation.                        *)
(***************************************************************************)
\* C4: in every reachable state every stored SampleOperation whose duration
\* and number_of_operation are both present (0 included) has
\* total_duration = number_of_operation * duration, whatever total_duration the
\* caller supplied.  (number_of_operation is an int with default 1: it is
\* always present.)
C4_TotalDurationIsProduct ==
    \A i \in DOMAIN operations :
        operations[i].duration # None =>
            operations[i].total_duration
                = Some(operations[i].number_of_operation * operations[i].duration[1])

(***************************************************************************)
(* C12.  PUT on a SampleOperation and on an operation type.                *)
(***************************************************************************)
PutOperationIds == 1..MaxPutOperationId
PutOperationPayloads ==
    Payloads(OperationRequired, {"number_of_operation", "duration", "total_duration"},
             [OperationValues EXCEPT !.sample_id = {1}])

NextPut ==
    \/ \E p \in LifecycleStylePayloads : styles = Empty /\ create_style(p)
    \/ \E p \in TimingSamplePayloads : samples = Empty /\ create_sample(p)
    \/ \E p \in PutOperationPayloads :
          NextId("operations") <= MaxPutOperationId /\ create_sample_operation(p)
    \/ \E id \in PutOperationIds, p \in PutOperationPayloads : update_sample_operation(id, p)
    \/ \E p \in OpTypePayloads : NextId("opTypes") <= MaxOpTypeId /\ create_operation_type(p)
    \/ \E id \in OpTypeIds, p \in OpTypePayloads : update_operation_type(id, p)

SpecPut == Init /\ [][NextPut]_vars

\* C12 as stated: update_sample_operation and update_operation_type are partial
\* merges: a field the request does not supply (size, duration, total_duration,
\* number_of_operation) keeps the value stored before the update.
C12_PutKeepsOmittedFields ==
    [][/\ \A id \in PutOperationIds, p \in PutOperationPayloads :
             (last'.op = "update_sample_operation" /\ last'.id = id /\ last'.code = 200
                 /\ update_sample_operation(id, p)) =>
                 \A f \in DOMAIN operations[id] \ DOMAIN p :
                     operations'[id][f] = operations[id][f]
       /\ \A id \in OpTypeIds, p \in OpTypePayloads :
             (last'.op = "update_operation_type" /\ last'.id = id /\ last'.code = 200
                 /\ update_operation_type(id, p)) =>
                 \A f \in DOMAIN opTypes[id] \ DOMAIN p : opTypes'[id][f] = opTypes[id][f]]_vars

\* C12, amended: both PUTs replace the row.  After a successful
\* update_sample_operation a field the request does not supply is at its schema
\* default (number_of_operation 1, size and duration null), and an omitted
\* total_duration is the product when duration and number_of_operation are both
\* non-zero and null otherwise; the stored values play no part.  An operation
\* type's two fields are required, so the row ends equal to the request.
C12_PutReplacesTheRow ==
    [][/\ \A id \in PutOperationIds, p \in PutOperationPayloads :
             (last'.op = "update_sample_operation" /\ last'.id = id /\ last'.code = 200
                 /\ update_sample_operation(id, p)) =>
                 LET new == operations'[id]
                 IN  /\ \A f \in DOMAIN p : f # "total_duration" => new[f] = p[f]
                     /\ \A f \in {"number_of_operation", "size", "duration"} \ DOMAIN p :
                           new[f] = OperationDefaults[f]
                     /\ "total_duration" \notin DOMAIN p =>
                           new.total_duration =
                               IF new.duration # None /\ new.duration[1] # 0
                                    /\ new.number_of_operation # 0
                               THEN Some(new.duration[1] * new.number_of_operation)
                               ELSE None
       /\ \A id \in OpTypeIds, p \in OpTypePayloads :
             (last'.op = "update_operation_type" /\ last'.id = id /\ last'.code = 200
                 /\ update_operation_type(id, p)) =>
                 /\ DOMAIN p = DOMAIN opTypes[id]
                 /\ \A f \in DOMAIN p : opTypes'[id][f] = p[f]]_vars

\* a PUT has just left an operation with number_of_operation 1 and no duration:
\* no request supplies the count 1, so the request omitted both fields
C12_Witness ==
    /\ last.op = "update_sample_operation" /\ last.code = 200
    /\ last.id \in DOMAIN operations
    /\ operations[last.id].number_of_operation = 1
    /\ operations[last.id].duration = None
    /\ operations[last.id].total_duration = None
    /\ opTypes # Empty

(***************************************************************************)
(* Sample plans: POST /plan.                                               *)
(***************************************************************************)
PlanRequired == {"sample_id", "buyer_name", "style_name", "sample_type"}
PlanDefaults ==
    [sample_id |-> NULL, buyer_name |-> NULL, style_name |-> NULL, sample_type |-> NULL,
     item |-> NULL, round |-> 1, submit_status |-> NULL]

\* db.query(SamplePlan).filter(SamplePlan.sample_id == sample_id): the ids found.
\* .first() has no ORDER BY: it returns any one of them, None (0) if there is none.
PlansOfSample(sid) == {i \in DOMAIN plans : plans[i].sample_id = sid}
FirstPlan(sid) == IF PlansOfSample(sid) = {} THEN {0} ELSE PlansOfSample(sid)

\* The UPDATE a commit flushes for a loaded row: the ORM writes the attributes
\* whose value differs from the one it loaded, and leaves the other columns as
\* the database holds them.
Flush(stored, loaded, new) ==
    [f \in DOMAIN stored |-> IF new[f] # loaded[f] THEN new[f] ELSE stored[f]]

\* mutant: the existing plan is merged with the fields the caller set only
\* (model_dump(exclude_unset=True), as the PUT handlers do)
plan_overwrite_SetFieldsOnly(loaded, p) == Merge(loaded, p)

\* for key, value in plan_data.model_dump().items(): setattr(existing_plan, key, value)
plan_overwrite(loaded, p) == Merge(loaded, Dump(p, PlanDefaults))

\* the commit of create_plan, given what its query found (existing = 0: nothing)
\* and the row it loaded then
create_plan_commit(existing, loaded, p) ==
    IF existing # 0
    THEN /\ plans' = [plans EXCEPT
                        ![existing] = Flush(plans[existing], loaded, plan_overwrite(loaded, p))]
         /\ last' = Resp("create_plan", existing, 201, [kind |-> "plan", payload |-> p])
         /\ UNCHANGED seq
    ELSE /\ plans' = Insert(plans, NextId("plans"), Dump(p, PlanDefaults))
         /\ seq' = Advance("plans")
         /\ last' = Resp("create_plan", NextId("plans"), 201, [kind |-> "plan", payload |-> p])

\* POST /plan, handled without another request in between
create_plan(p) ==
    /\ \E existing \in FirstPlan(p.sample_id) :
          create_plan_commit(existing, IF existing # 0 THEN plans[existing] ELSE PlanDefaults, p)
    /\ UNCHANGED <<styles, variants, colorParts, samples, operations, materials, tnas, opTypes, reqs, deletedStyles,
                   smvs, sessions, boot>>

PlanValues ==
    [sample_id |-> {"SMP-1", "SMP-2"}, buyer_name |-> {"H&M", "Zara"}, style_name |-> {"Polo"},
     sample_type |-> {"Proto"}, item |-> {"Sweater"}, round |-> {2}]
PlanPayloads == Payloads(PlanRequired, {"item", "round"}, PlanValues)

NextPlan ==
    \E p \in PlanPayloads :
        (FirstPlan(p.sample_id) = {0} => NextId("plans") <= MaxPlanId) /\ create_plan(p)

SpecPlan == Init /\ [][NextPlan]_vars

(***************************************************************************)
(* C3.  Two create_plan calls in sequence.                                 *)
(***************************************************************************)
\* C3: when create_plan is called with a payload whose sample_id an earlier
\* create_plan already stored (the calls run one after the other), exactly
\* one SamplePlan row with that sample_id is stored afterwards, and every
\* payload field of that row has the value of the later payload (its schema
\* default where the payload sets none): no field keeps the earlier value.
C3_SecondPayloadOverwrites ==
    [][\A p \in PlanPayloads :
        (PlansOfSample(p.sample_id) # {} /\ last'.op = "create_plan" /\ create_plan(p)) =>
            /\ {plans'[i] : i \in {j \in DOMAIN plans' : plans'[j].sample_id = p.sample_id}}
                 = {Dump(p, PlanDefaults)}
            /\ Cardinality({j \in DOMAIN plans' : plans'[j].sample_id = p.sample_id}) = 1]_vars

\* the last create_plan overwrote the first row after a second one was stored,
\* and reset the item and the round that row may have had
C3_Witness ==
    /\ last.op = "create_plan" /\ last.id = 1
    /\ DOMAIN plans = {1, 2}
    /\ "item" \notin DOMAIN last.body.payload
    /\ plans[1].item = NULL /\ plans[1].round = 1 /\ plans[2].round = 2

(***************************************************************************)
(* Requests that overlap.  Every request runs in a session of its own      *)
(* (get_db); a handler's queries and its commit are separate statements,   *)
(* and other requests' statements may run between them.  reqs holds the    *)
(* handlers that have run a query and not yet committed.                   *)
(***************************************************************************)
Begin(c, r) == reqs' = (c :> r) @@ reqs
Finish(c) == reqs' = Remove(reqs, c)

\* POST /plan, first statement: the existence query
create_plan_query(c, p) ==
    /\ c \notin DOMAIN reqs
    /\ \E existing \in FirstPlan(p.sample_id) :
          Begin(c, [op |-> "create_plan", payload |-> p, existing |-> existing,
                    loaded |-> IF existing # 0 THEN plans[existing] ELSE PlanDefaults])
    /\ UNCHANGED <<styles, variants, colorParts, samples, operations, materials, tnas, opTypes, plans, seq, last,
                   deletedStyles, smvs, sessions, boot>>

\* POST /plan, the commit
create_plan_finish(c) ==
    /\ c \in DOMAIN reqs /\ reqs[c].op = "create_plan"
    /\ create_plan_commit(reqs[c].existing, reqs[c].loaded, reqs[c].payload)
    /\ Finish(c)
    /\ UNCHANGED <<styles, variants, colorParts, samples, operations, materials, tnas, opTypes, deletedStyles,
                   smvs, sessions, boot>>

PlanClients == 1..MaxPlanClients
RacePlanPayloads ==
    Payloads(PlanRequired, {"item"}, [PlanValues EXCEPT !.sample_id = {"SMP-1"}])

NextPlanRace ==
    \/ \E c \in PlanClients, p \in RacePlanPayloads : create_plan_query(c, p)
    \/ \E c \in PlanClients :
          /\ c \in DOMAIN reqs
          /\ reqs[c].existing = 0 => NextId("plans") <= MaxPlanId
          /\ create_plan_finish(c)

SpecPlanRace == Init /\ [][NextPlanRace]_vars

(***************************************************************************)
(* C2.  One SamplePlan row per sample_id.                                  *)
(***************************************************************************)
\* C2: in every reachable state, after any interleaving of create_plan
\* requests, the SamplePlan table holds at most one row per sample_id.
C2_OnePlanPerSampleId ==
    \A i, j \in DOMAIN plans : plans[i].sample_id = plans[j].sample_id => i = j

(***************************************************************************)
(* delete_style overlapping with writes of its dependents.                 *)
(***************************************************************************)
\* DELETE /styles/{style_id}, first statement: the lookup of the style
delete_style_find(c, id) ==
    /\ c \notin DOMAIN reqs
    /\ IF id \in DOMAIN styles
       THEN Begin(c, [op |-> "delete_style", id |-> id, pc |-> "count_samples"])
            /\ UNCHANGED last
       ELSE last' = delete_style_checks(id, FALSE, 0, 0) /\ UNCHANGED reqs
    /\ UNCHANGED <<styles, variants, colorParts, samples, operations, materials, tnas, opTypes, plans, seq, deletedStyles,
                   smvs, sessions, boot>>

\* second statement: samples_count
delete_style_count_samples(c) ==
    /\ c \in DOMAIN reqs /\ reqs[c].op = "delete_style" /\ reqs[c].pc = "count_samples"
    /\ LET id == reqs[c].id
           r == delete_style_checks(id, TRUE, Cardinality(SamplesOfStyle(id)), 0)
       IN  IF r.code = 400
           THEN last' = r /\ Finish(c)
           ELSE reqs' = [reqs EXCEPT ![c].pc = "count_variants"] /\ UNCHANGED last
    /\ UNCHANGED <<styles, variants, colorParts, samples, operations, materials, tnas, opTypes, plans, seq, deletedStyles,
                   smvs, sessions, boot>>

\* third statement: variants_count
delete_style_count_variants(c) ==
    /\ c \in DOMAIN reqs /\ reqs[c].op = "delete_style" /\ reqs[c].pc = "count_variants"
    /\ LET id == reqs[c].id
           r == delete_style_checks(id, TRUE, 0, Cardinality(VariantsOfStyle(id)))
       IN  IF r.code = 400
           THEN last' = r /\ Finish(c)
           ELSE reqs' = [reqs EXCEPT ![c].pc = "commit"] /\ UNCHANGED last
    /\ UNCHANGED <<styles, variants, colorParts, samples, operations, materials, tnas, opTypes, plans, seq, deletedStyles,
                   smvs, sessions, boot>>

\* db.delete(style); db.commit()
delete_style_finish(c) ==
    /\ c \in DOMAIN reqs /\ reqs[c].op = "delete_style" /\ reqs[c].pc = "commit"
    /\ delete_style_commit(reqs[c].id)
    /\ Finish(c)
    /\ UNCHANGED <<variants, colorParts, samples, operations, materials, tnas, opTypes, plans, seq,
                   smvs, sessions, boot>>

\* setattr(variant, "color_parts", value): color_parts is the relationship
\* (cascade="all, delete-orphan").  A list of dicts, or None, is not a collection
\* of VariantColorPart and raises; an empty list replaces the collection, and the
\* rows it held are deleted as orphans at the flush.
color_parts_raises(p) == "color_parts" \in DOMAIN p /\ p.color_parts # << >>

\* PUT /style-variants/{variant_id}: the fields the caller set
\* (model_dump(exclude_unset=True)), color_parts included.  try/except:
\* HTTPException re-raised, any other exception -> rollback, 500.
update_style_variant(id, p) ==
    /\ IF id \notin DOMAIN variants
       THEN /\ last' = Resp("update_style_variant", id, 404, NoBody)
            /\ UNCHANGED <<variants, colorParts>>
       ELSE LET row == Merge(variants[id], p)
            IN  IF ~color_parts_raises(p) /\ VariantRowOk(row)
                THEN /\ variants' = [variants EXCEPT ![id] = row]
                     /\ colorParts' =
                           IF "color_parts" \in DOMAIN p
                           THEN [i \in DOMAIN colorParts \ PartsOfVariant(id) |-> colorParts[i]]
                           ELSE colorParts
                     /\ last' = Resp("update_style_variant", id, 200,
                                     [kind |-> "variant", row |-> row])
                ELSE /\ last' = Resp("update_style_variant", id, 500, NoBody)
                     /\ UNCHANGED <<variants, colorParts>>
    /\ UNCHANGED <<styles, samples, operations, materials, tnas, opTypes, plans, seq, reqs,
                   deletedStyles, smvs, sessions, boot>>

RaceStyleIds == 1..MaxRaceStyleId
RaceClients == 1..MaxRaceClients
RaceVariantPayloads ==
    Payloads(VariantRequired, {}, [VariantValues EXCEPT !.style_summary_id = RaceStyleIds])
RaceVariantUpdates ==
    Payloads({}, {"style_summary_id"}, [style_summary_id |-> RaceStyleIds])
RaceSamplePayloads ==
    Payloads(SampleRequired, {},
             [SampleValues EXCEPT !.style_id = RaceStyleIds, !.sample_id = {"SMP-1"}])

NextStyleRace ==
    \/ \E p \in StyleCreatePayloads : NextId("styles") <= MaxRaceStyleId /\ create_style(p)
    \/ \E c \in RaceClients, id \in RaceStyleIds : delete_style_find(c, id)
    \/ \E c \in RaceClients : delete_style_count_samples(c)
    \/ \E c \in RaceClients : delete_style_count_variants(c)
    \/ \E c \in RaceClients : delete_style_finish(c)
    \/ \E p \in RaceSamplePayloads : NextId("samples") <= MaxRaceDependents /\ create_sample(p)
    \/ \E p \in RaceVariantPayloads : NextId("variants") <= MaxRaceDependents /\ create_style_variant(p)
    \/ \E id \in 1..MaxRaceDependents, p \in RaceVariantUpdates : update_style_variant(id, p)

SpecStyleRace == Init /\ [][NextStyleRace]_vars

(***************************************************************************)
(* C7.  No Sample or StyleVariant references a removed style.              *)
(***************************************************************************)
\* C7: in every reachable state, under any interleaving of delete_style with
\* create_sample, create_style_variant and update_style_variant, every stored
\* Sample.style_id and every stored StyleVariant.style_summary_id refers to a
\* stored StyleSummary, also when the dependent is committed between
\* delete_style's count checks and its commit.
C7_NoDanglingStyleReference ==
    /\ \A i \in DOMAIN samples : samples[i].style_id \in DOMAIN styles
    /\ \A i \in DOMAIN variants : variants[i].style_summary_id \in DOMAIN styles

\* a delete_style that passed both count checks and was refused at its commit,
\* a Sample and a StyleVariant having been stored in between
C7_Witness ==
    /\ last = Resp("delete_style", last.id, 500, NoBody)
    /\ last.id \in DOMAIN styles
    /\ SamplesOfStyle(last.id) # {}
    /\ VariantsOfStyle(last.id) # {}

(***************************************************************************)
(* Colour parts and the computed description of a variant.                 *)
(* A formatted string is the sequence of its pieces.                       *)
(***************************************************************************)
PartDefaults ==
    [style_variant_id |-> 0, part_name |-> NULL, colour_name |-> NULL, sort_order |-> 0]
PartRequired == {"style_variant_id", "part_name", "colour_name"}

\* Inserts a VariantColorPart row (VariantColorPartCreate); the route that does
\* it is not among the source files.
create_color_part(p) ==
    LET row == Dump(p, PartDefaults)
        id == NextId("parts")
    IN  /\ IF PartRowOk(row)
           THEN /\ colorParts' = Insert(colorParts, id, row)
                /\ seq' = Advance("parts")
                /\ last' = Resp("create_color_part", id, 201, [kind |-> "part", row |-> row])
           ELSE /\ last' = Resp("create_color_part", 0, 500, NoBody)
                /\ UNCHANGED <<colorParts, seq>>
        /\ UNCHANGED <<styles, variants, samples, operations, materials, tnas, opTypes, plans, reqs, deletedStyles,
                   smvs, sessions, boot>>

\* self.color_parts: the variant's rows as the relationship loads them; it has
\* no order_by, so they come in any order
LoadOrders(id) ==
    {o \in [1..Cardinality(PartsOfVariant(id)) -> PartsOfVariant(id)] :
        \A a, b \in DOMAIN o : a # b => o[a] # o[b]}

\* sorted(parts, key=lambda x: x.sort_order): a stable sort
RECURSIVE InsertSorted(_, _)
InsertSorted(sorted, x) ==
    IF sorted = << >> THEN <<x>>
    ELSE IF colorParts[sorted[Len(sorted)]].sort_order <= colorParts[x].sort_order
         THEN Append(sorted, x)
         ELSE Append(InsertSorted(SubSeq(sorted, 1, Len(sorted) - 1), x), sorted[Len(sorted)])

RECURSIVE sorted_by_sort_order(_)
sorted_by_sort_order(parts) ==
    IF parts = << >> THEN << >>
    ELSE InsertSorted(sorted_by_sort_order(SubSeq(parts, 1, Len(parts) - 1)), parts[Len(parts)])

\* f"{part.part_name}: {part.colour_name}"
part_text(x) == <<colorParts[x].part_name, ": ", colorParts[x].colour_name>>

\* ", ".join(texts)
RECURSIVE join(_)
join(parts) ==
    IF parts = << >> THEN << >>
    ELSE IF Len(parts) = 1 THEN part_text(parts[1])
    ELSE part_text(parts[1]) \o <<", ">> \o join(Tail(parts))

\* mutant: the parts are joined in the order they were loaded
full_color_description_Unsorted(v, parts) ==
    IF v.is_multicolor /\ parts # << >> THEN join(parts) ELSE <<v.colour_name>>

\* mutant: the parts are joined whenever there are any
full_color_description_IgnoresFlag(v, parts) ==
    IF parts # << >> THEN join(sorted_by_sort_order(parts)) ELSE <<v.colour_name>>

\* StyleVariant.full_color_description; parts is self.color_parts as loaded
full_color_description(v, parts) ==
    IF v.is_multicolor /\ parts # << >>
    THEN join(sorted_by_sort_order(parts))
    ELSE <<v.colour_name>>

\* mutant: the parent is looked up by the variant's own copy of the style_id text
parent_style_ByStyleIdText(v) ==
    LET found == {i \in DOMAIN styles : styles[i].style_id = v.style_id}
    IN  IF found = {} THEN None ELSE Some(CHOOSE i \in found : TRUE)

\* StyleVariant.style: the relationship over style_summary_id, None when no
\* style has that id
parent_style(v) ==
    IF v.style_summary_id \in DOMAIN styles THEN Some(v.style_summary_id) ELSE None

\* StyleVariant.style_category: self.style.product_category if self.style else None
style_category(v) ==
    IF parent_style(v) # None THEN styles[parent_style(v)[1]].product_category ELSE NULL

\* StyleVariant.gauge: self.style.gauge if self.style else None
gauge(v) ==
    IF parent_style(v) # None THEN styles[parent_style(v)[1]].gauge ELSE NULL

\* GET /style-variants/{variant_id}
get_style_variant(id) ==
    /\ IF id \in DOMAIN variants
       THEN \E o \in LoadOrders(id) :
               last' = Resp("get_style_variant", id, 200,
                            [kind |-> "variant",
                             style_category |-> style_category(variants[id]),
                             gauge |-> gauge(variants[id]),
                             full_color_description |-> full_color_description(variants[id], o)])
       ELSE last' = Resp("get_style_variant", id, 404, NoBody)
    /\ UNCHANGED <<styles, variants, colorParts, samples, operations, materials, tnas, opTypes, plans, seq, reqs,
                   deletedStyles, smvs, sessions, boot>>

ColorVariantIds == 1..MaxColorVariantId
PayloadPart == [part_name |-> "Body", colour_name |-> "White", sort_order |-> 1]
ColorVariantValues ==
    [style_summary_id |-> {1}, style_name |-> {"Polo"}, style_id |-> {"PS-001"},
     colour_name |-> {"Navy"}, is_multicolor |-> {TRUE}, color_parts |-> {<<PayloadPart>>}]
ColorVariantPayloads ==
    Payloads(VariantRequired, {"is_multicolor", "color_parts"}, ColorVariantValues)
PartValues ==
    [style_variant_id |-> ColorVariantIds, part_name |-> {"Body", "Collar"},
     colour_name |-> {"White"}, sort_order |-> {1}]
PartPayloads == Payloads(PartRequired, {"sort_order"}, PartValues)

NextColor ==
    \/ \E p \in LifecycleStylePayloads : styles = Empty /\ create_style(p)
    \/ \E p \in ColorVariantPayloads :
          NextId("variants") <= MaxColorVariantId /\ create_style_variant(p)
    \/ \E p \in PartPayloads : NextId("parts") <= MaxPartId /\ create_color_part(p)
    \/ \E id \in ColorVariantIds : get_style_variant(id)
    \/ \E id \in ColorVariantIds : delete_style_variant(id)

SpecColor == Init /\ [][NextColor]_vars

\* the parts in o are in ascending sort_order
Ascending(o) ==
    \A a, b \in DOMAIN o : a < b => colorParts[o[a]].sort_order <= colorParts[o[b]].sort_order

\* d is "{part_name}: {colour_name}" of the parts in o, in that order, joined with ", "
Describes(d, o) ==
    /\ Len(d) = 4 * Len(o) - 1
    /\ \A k \in DOMAIN o :
          /\ d[4 * k - 3] = colorParts[o[k]].part_name
          /\ d[4 * k - 2] = ": "
          /\ d[4 * k - 1] = colorParts[o[k]].colour_name
          /\ k < Len(o) => d[4 * k] = ", "

\* C8: for every multi-colour variant with at least one part, however its parts
\* are loaded, full_color_description is "{part_name}: {colour_name}" of its
\* parts in ascending sort_order joined with ", ": some enumeration of exactly
\* the variant's own parts, each once, ascending by sort_order, is described.
C8_DescriptionJoinsPartsInOrder ==
    \A id \in DOMAIN variants :
        (variants[id].is_multicolor /\ PartsOfVariant(id) # {}) =>
            \A loaded \in LoadOrders(id) :
                \E o \in LoadOrders(id) :
                    /\ Ascending(o)
                    /\ Describes(full_color_description(variants[id], loaded), o)

\* a multi-colour variant whose two parts were inserted in descending sort_order
\* has just been read, while another variant has parts of its own or none
C8_Witness ==
    /\ last.op = "get_style_variant" /\ last.code = 200
    /\ last.id \in DOMAIN variants
    /\ variants[last.id].is_multicolor
    /\ \E a, b \in PartsOfVariant(last.id) :
          a < b /\ colorParts[a].sort_order > colorParts[b].sort_order
    /\ Len(last.body.full_color_description) = 7

\* C9: for every variant with is_multicolor = FALSE, parts or no parts,
\* full_color_description is colour_name verbatim; so it is for a multi-colour
\* variant with an empty part list.
C9_SingleColourIsColourName ==
    \A id \in DOMAIN variants :
        (~variants[id].is_multicolor \/ PartsOfVariant(id) = {}) =>
            \A loaded \in LoadOrders(id) :
                full_color_description(variants[id], loaded) = <<variants[id].colour_name>>

\* a single-colour variant that has parts has just been read, and there is a
\* multi-colour variant without parts
C9_Witness ==
    /\ last.op = "get_style_variant" /\ last.code = 200
    /\ last.id \in DOMAIN variants
    /\ ~variants[last.id].is_multicolor
    /\ PartsOfVariant(last.id) # {}
    /\ last.body.full_color_description = <<variants[last.id].colour_name>>
    /\ \E other \in DOMAIN variants : variants[other].is_multicolor /\ PartsOfVariant(other) = {}

update_style(id, p) ==
    /\ IF id \notin DOMAIN styles
       THEN last' = Resp("update_style", id, 404, NoBody) /\ UNCHANGED styles
       ELSE LET row == Merge(styles[id], p)
            IN  IF StyleRowOk(row, {id})
                THEN /\ styles' = [styles EXCEPT ![id] = row]
                     /\ last' = Resp("update_style", id, 200, [kind |-> "style", row |-> row])
                ELSE last' = Resp("update_style", id, 500, NoBody) /\ UNCHANGED styles
    /\ UNCHANGED <<variants, colorParts, samples, operations, plans, materials, tnas, opTypes,
                   seq, reqs, deletedStyles, smvs, sessions, boot>>

MaterialRequired ==
    {"style_variant_id", "style_name", "style_id", "material", "uom", "consumption_per_piece"}
MaterialDefaults ==
    [style_variant_id |-> 0, style_name |-> NULL, style_id |-> NULL, material |-> NULL,
     uom |-> NULL, consumption_per_piece |-> None, converted_uom |-> NULL, remarks |-> NULL]

\* required_materials: NOT NULL columns and ForeignKey("style_variants.id")
MaterialRowOk(row) ==
    /\ row.style_name # NULL
    /\ row.style_id # NULL
    /\ row.material # NULL
    /\ row.uom # NULL
    /\ row.consumption_per_piece # None
    /\ row.style_variant_id \in DOMAIN variants

\* POST /required-materials.  try/except: any exception -> rollback, 500.
create_required_material(p) ==
    LET row == Dump(p, MaterialDefaults)
        id == NextId("materials")
    IN  /\ IF MaterialRowOk(row)
           THEN /\ materials' = Insert(materials, id, row)
                /\ seq' = Advance("materials")
                /\ last' = Resp("create_required_material", id, 201,
                                [kind |-> "material", row |-> row])
           ELSE /\ last' = Resp("create_required_material", 0, 500, NoBody)
                /\ UNCHANGED <<materials, seq>>
        /\ UNCHANGED <<styles, variants, colorParts, samples, operations, plans, tnas, opTypes,
                       reqs, deletedStyles, smvs, sessions, boot>>

\* PUT /required-materials/{material_id}: model_dump(exclude_unset=True) merged
update_required_material(id, p) ==
    /\ IF id \notin DOMAIN materials
       THEN last' = Resp("update_required_material", id, 404, NoBody) /\ UNCHANGED materials
       ELSE LET row == Merge(materials[id], p)
            IN  IF MaterialRowOk(row)
                THEN /\ materials' = [materials EXCEPT ![id] = row]
                     /\ last' = Resp("update_required_material", id, 200,
                                     [kind |-> "material", row |-> row])
                ELSE last' = Resp("update_required_material", id, 500, NoBody)
                     /\ UNCHANGED materials
    /\ UNCHANGED <<styles, variants, colorParts, samples, operations, plans, tnas, opTypes,
                   seq, reqs, deletedStyles, smvs, sessions, boot>>

\* DELETE /required-materials/{material_id}
delete_required_material(id) ==
    /\ IF id \in DOMAIN materials
       THEN /\ materials' = Remove(materials, id)
            /\ last' = Resp("delete_required_material", id, 204, NoBody)
       ELSE /\ last' = Resp("delete_required_material", id, 404, NoBody)
            /\ UNCHANGED materials
    /\ UNCHANGED <<styles, variants, colorParts, samples, operations, plans, tnas, opTypes,
                   seq, reqs, deletedStyles, smvs, sessions, boot>>

TnaRequired == {"sample_id", "buyer_name", "style_name", "sample_type"}
TnaDefaults ==
    [sample_id |-> NULL, buyer_name |-> NULL, style_name |-> NULL, sample_type |-> NULL,
     item |-> NULL, notes |-> NULL]

\* sample_tna: NOT NULL columns (sample_id is not unique)
TnaRowOk(row) ==
    /\ row.sample_id # NULL
    /\ row.buyer_name # NULL
    /\ row.style_name # NULL
    /\ row.sample_type # NULL

\* POST /tna.  No try/except.
create_tna(p) ==
    LET row == Dump(p, TnaDefaults)
        id == NextId("tnas")
    IN  /\ IF TnaRowOk(row)
           THEN /\ tnas' = Insert(tnas, id, row)
                /\ seq' = Advance("tnas")
                /\ last' = Resp("create_tna", id, 201, [kind |-> "tna", row |-> row])
           ELSE /\ last' = Resp("create_tna", 0, 500, NoBody)
                /\ UNCHANGED <<tnas, seq>>
        /\ UNCHANGED <<styles, variants, colorParts, samples, operations, plans, materials,
                       opTypes, reqs, deletedStyles, smvs, sessions, boot>>

\* PUT /tna/{tna_id}: model_dump(exclude_unset=True) merged
update_tna(id, p) ==
    /\ IF id \notin DOMAIN tnas
       THEN last' = Resp("update_tna", id, 404, NoBody) /\ UNCHANGED tnas
       ELSE LET row == Merge(tnas[id], p)
            IN  IF TnaRowOk(row)
                THEN /\ tnas' = [tnas EXCEPT ![id] = row]
                     /\ last' = Resp("update_tna", id, 200, [kind |-> "tna", row |-> row])
                ELSE last' = Resp("update_tna", id, 500, NoBody) /\ UNCHANGED tnas
    /\ UNCHANGED <<styles, variants, colorParts, samples, operations, plans, materials,
                   opTypes, seq, reqs, deletedStyles, smvs, sessions, boot>>

\* DELETE /tna/{tna_id}
delete_tna(id) ==
    /\ IF id \in DOMAIN tnas
       THEN /\ tnas' = Remove(tnas, id)
            /\ last' = Resp("delete_tna", id, 204, NoBody)
       ELSE /\ last' = Resp("delete_tna", id, 404, NoBody)
            /\ UNCHANGED tnas
    /\ UNCHANGED <<styles, variants, colorParts, samples, operations, plans, materials,
                   opTypes, seq, reqs, deletedStyles, smvs, sessions, boot>>

(***************************************************************************)
(* The merge updates together.                                             *)
(***************************************************************************)
MergeRowIds == 1..MaxMergeRows
MergeVariantIds == 1..MaxMergeVariantId
MergeStylePayloads ==
    Payloads(StyleRequired \cup {"gauge"}, {},
             [StyleValues EXCEPT !.style_id = {"PS-001"}])
MergeStyleUpdates ==
    Payloads(StyleRequired, {},
             [buyer_id |-> {1}, style_name |-> {"Polo", "Tee"}, style_id |-> {"PS-001"}])
MergeVariantPayloads ==
    Payloads(VariantRequired, {}, [VariantValues EXCEPT !.style_summary_id = {1}])
MergeVariantUpdates ==
    Payloads({}, {"colour_name", "color_parts"},
             [colour_name |-> {"Red"}, color_parts |-> {<< >>, <<PayloadPart>>}])
MergePartPayloads ==
    Payloads(PartRequired, {},
             [style_variant_id |-> MergeVariantIds, part_name |-> {"Body"},
              colour_name |-> {"White"}])
MergeMaterialPayloads ==
    Payloads(MaterialRequired, {},
             [style_variant_id |-> {1}, style_name |-> {"Polo"}, style_id |-> {"PS-001"},
              material |-> {"Yarn"}, uom |-> {"kg"}, consumption_per_piece |-> {Some(2)}])
MergeMaterialUpdates == Payloads({}, {"remarks"}, [remarks |-> {"dry"}])
MergeTnaPayloads ==
    Payloads(TnaRequired, {},
             [sample_id |-> {"SMP-1"}, buyer_name |-> {"Acme"}, style_name |-> {"Polo"},
              sample_type |-> {"Proto"}])
MergeTnaUpdates == Payloads({}, {"notes"}, [notes |-> {"rush"}])
MergeSamplePayloads ==
    Payloads(SampleRequired \cup {"worksheet_rcv_date"}, {},
             [LifecycleSampleValues EXCEPT !.sample_id = {"SMP-1"}])
MergeSampleUpdates ==
    Payloads({}, {"submit_status", "notes"},
             [submit_status |-> {REJECT_REMAKE}, notes |-> {"redo"}])

NextMerge ==
    \/ \E p \in MergeStylePayloads : NextId("styles") <= MaxMergeRows /\ create_style(p)
    \/ \E id \in MergeRowIds, p \in MergeStyleUpdates : update_style(id, p)
    \/ \E p \in MergeVariantPayloads :
          NextId("variants") <= MaxMergeVariantId /\ create_style_variant(p)
    \/ \E id \in MergeVariantIds, p \in MergeVariantUpdates : update_style_variant(id, p)
    \/ \E p \in MergePartPayloads : NextId("parts") <= MaxMergePartId /\ create_color_part(p)
    \/ \E p \in MergeMaterialPayloads :
          NextId("materials") <= MaxMergeRows /\ create_required_material(p)
    \/ \E id \in MergeRowIds, p \in MergeMaterialUpdates : update_required_material(id, p)
    \/ \E p \in MergeTnaPayloads : NextId("tnas") <= MaxMergeRows /\ create_tna(p)
    \/ \E id \in MergeRowIds, p \in MergeTnaUpdates : update_tna(id, p)
    \/ \E p \in MergeSamplePayloads : NextId("samples") <= MaxMergeRows /\ create_sample(p)
    \/ \E id \in MergeRowIds, p \in MergeSampleUpdates :
          RoundBelowCap(id, p) /\ update_sample(id, p)

SpecMerge == Init /\ [][NextMerge]_vars

(***************************************************************************)
(* C11.  The merge updates change only the fields the request sets.        *)
(***************************************************************************)
\* of the table before and after: the row id keeps every field outside set, and
\* every other row is as it was
OnlySetFieldsChange(before, after, id, set) ==
    /\ DOMAIN after = DOMAIN before
    /\ \A i \in DOMAIN before :
          IF i = id
          THEN \A f \in DOMAIN before[i] \ set : after[i][f] = before[i][f]
          ELSE after[i] = before[i]

\* C11: update_sample, update_style, update_style_variant,
\* update_required_material and update_tna change only the fields present in
\* the request: every other field of the target row keeps its value (round
\* apart, under the reject rule), and no other row of any table changes.
C11_MergeChangesOnlySetFields ==
    [][/\ \A id \in MergeRowIds, p \in MergeSampleUpdates :
             (last'.op = "update_sample" /\ last'.id = id /\ update_sample(id, p)) =>
                 /\ OnlySetFieldsChange(samples, samples', id, DOMAIN p \cup {"round"})
                 /\ UNCHANGED <<styles, variants, colorParts, materials, tnas>>
       /\ \A id \in MergeRowIds, p \in MergeStyleUpdates :
             (last'.op = "update_style" /\ last'.id = id /\ update_style(id, p)) =>
                 /\ OnlySetFieldsChange(styles, styles', id, DOMAIN p)
                 /\ UNCHANGED <<samples, variants, colorParts, materials, tnas>>
       /\ \A id \in MergeVariantIds, p \in MergeVariantUpdates :
             (last'.op = "update_style_variant" /\ last'.id = id
                 /\ update_style_variant(id, p)) =>
                 /\ OnlySetFieldsChange(variants, variants', id, DOMAIN p)
                 /\ UNCHANGED <<styles, samples, colorParts, materials, tnas>>
       /\ \A id \in MergeRowIds, p \in MergeMaterialUpdates :
             (last'.op = "update_required_material" /\ last'.id = id
                 /\ update_required_material(id, p)) =>
                 /\ OnlySetFieldsChange(materials, materials', id, DOMAIN p)
                 /\ UNCHANGED <<styles, samples, variants, colorParts, tnas>>
       /\ \A id \in MergeRowIds, p \in MergeTnaUpdates :
             (last'.op = "update_tna" /\ last'.id = id /\ update_tna(id, p)) =>
                 /\ OnlySetFieldsChange(tnas, tnas', id, DOMAIN p)
                 /\ UNCHANGED <<styles, samples, variants, colorParts, materials>>]_vars

(***************************************************************************)
(* C13.  create_plan replaces, update_sample merges.                       *)
(***************************************************************************)
NextUpsert ==
    \/ \E p \in PlanPayloads :
          (FirstPlan(p.sample_id) = {0} => NextId("plans") <= MaxPlanId) /\ create_plan(p)
    \/ \E p \in MergeStylePayloads : NextId("styles") <= MaxMergeRows /\ create_style(p)
    \/ \E p \in MergeSamplePayloads : NextId("samples") <= MaxMergeRows /\ create_sample(p)
    \/ \E id \in MergeRowIds, p \in MergeSampleUpdates :
          RoundBelowCap(id, p) /\ update_sample(id, p)

SpecUpsert == Init /\ [][NextUpsert]_vars

\* C13: a create_plan whose sample_id is already stored keeps the row and its
\* numeric id, overwrites every payload field, and leaves a field the new
\* payload omits at its schema default (round 1, optional fields null), not
\* at its previous value; a successful update_sample leaves every field it
\* does not set (round apart) at its previous value.
C13_PlanReplacesSampleMerges ==
    [][/\ \A p \in PlanPayloads :
             (PlansOfSample(p.sample_id) # {} /\ last'.op = "create_plan" /\ create_plan(p)) =>
                 /\ last'.id \in PlansOfSample(p.sample_id)
                 /\ DOMAIN plans' = DOMAIN plans
                 /\ \A f \in DOMAIN p : plans'[last'.id][f] = p[f]
                 /\ \A f \in DOMAIN PlanDefaults \ DOMAIN p :
                       plans'[last'.id][f] = PlanDefaults[f]
       /\ \A id \in MergeRowIds, p \in MergeSampleUpdates :
             (last'.op = "update_sample" /\ last'.id = id /\ last'.code = 200
                 /\ update_sample(id, p)) =>
                 \A f \in DOMAIN samples[id] \ (DOMAIN p \cup {"round"}) :
                     samples'[id][f] = samples[id][f]]_vars

\* the first of two plans has just been overwritten by a payload without item
\* and round, and is at the defaults; a sample that was sent back for a remake
\* with notes is stored
C13_Witness ==
    /\ last.op = "create_plan" /\ last.id = 1
    /\ DOMAIN plans = {1, 2}
    /\ DOMAIN last.body.payload = PlanRequired
    /\ plans[1].item = NULL /\ plans[1].round = 1
    /\ plans[2].item = "Sweater" /\ plans[2].round = 2
    /\ \E i \in DOMAIN samples :
          /\ samples[i].round = 2
          /\ samples[i].notes = "redo"
          /\ samples[i].worksheet_rcv_date = "2024-01-01"

(***************************************************************************)
(* C14.  delete_sample and the sample's operations.                        *)
(***************************************************************************)
\* DELETE /operations/{operation_id}
delete_sample_operation(id) ==
    /\ IF id \in DOMAIN operations
       THEN /\ operations' = Remove(operations, id)
            /\ last' = Resp("delete_sample_operation", id, 204, NoBody)
       ELSE /\ last' = Resp("delete_sample_operation", id, 404, NoBody)
            /\ UNCHANGED operations
    /\ UNCHANGED <<styles, variants, colorParts, samples, plans, materials, tnas, opTypes,
                   seq, reqs, deletedStyles, smvs, sessions, boot>>

DeleteSampleIds == 1..MaxDeleteSampleId
DeleteOperationIds == 1..MaxDeleteOperationId
DeleteSamplePayloads == Payloads(SampleRequired, {}, LifecycleSampleValues)
DeleteOperationPayloads ==
    Payloads(OperationRequired, {},
             [OperationValues EXCEPT !.sample_id = DeleteSampleIds])

NextSampleDelete ==
    \/ \E p \in LifecycleStylePayloads : styles = Empty /\ create_style(p)
    \/ \E p \in DeleteSamplePayloads :
          NextId("samples") <= MaxDeleteSampleId /\ create_sample(p)
    \/ \E p \in DeleteOperationPayloads :
          NextId("operations") <= MaxDeleteOperationId /\ create_sample_operation(p)
    \/ \E id \in DeleteOperationIds : delete_sample_operation(id)
    \/ \E id \in DeleteSampleIds : delete_sample(id)

SpecSampleDelete == Init /\ [][NextSampleDelete]_vars

\* C14: delete_sample on a stored Sample always succeeds, with or without
\* SampleOperation rows that reference it: the sample is removed and the
\* SampleOperation rows stay stored as they were.
C14_DeleteSampleAlwaysSucceeds ==
    [][\A id \in DeleteSampleIds :
          (id \in DOMAIN samples /\ last'.op = "delete_sample" /\ last'.id = id
              /\ delete_sample(id)) =>
              /\ last'.code = 204
              /\ id \notin DOMAIN samples'
              /\ operations' = operations]_vars

(***************************************************************************)
(* C15.  delete_style_variant and the rows that hang on the variant.       *)
(***************************************************************************)
DeleteVariantIds == 1..MaxDeleteVariantId
DeleteMaterialIds == 1..MaxDeleteMaterialId
DeleteVariantPayloads ==
    Payloads(VariantRequired, {}, [VariantValues EXCEPT !.style_summary_id = {1}])
DeletePartPayloads ==
    Payloads(PartRequired, {},
             [style_variant_id |-> DeleteVariantIds, part_name |-> {"Body", "Collar"},
              colour_name |-> {"White"}])
DeleteMaterialPayloads ==
    Payloads(MaterialRequired, {},
             [style_variant_id |-> DeleteVariantIds, style_name |-> {"Polo"},
              style_id |-> {"PS-001"}, material |-> {"Yarn"}, uom |-> {"kg"},
              consumption_per_piece |-> {Some(2)}])

NextVariantDelete ==
    \/ \E p \in LifecycleStylePayloads : styles = Empty /\ create_style(p)
    \/ \E p \in DeleteVariantPayloads :
          NextId("variants") <= MaxDeleteVariantId /\ create_style_variant(p)
    \/ \E p \in DeletePartPayloads : NextId("parts") <= MaxDeletePartId /\ create_color_part(p)
    \/ \E p \in DeleteMaterialPayloads :
          NextId("materials") <= MaxDeleteMaterialId /\ create_required_material(p)
    \/ \E id \in DeleteMaterialIds : delete_required_material(id)
    \/ \E id \in DeleteVariantIds : delete_style_variant(id)

SpecVariantDelete == Init /\ [][NextVariantDelete]_vars

\* C15: delete_style_variant on a stored variant removes that variant and
\* exactly its own VariantColorPart rows; the variant's RequiredMaterial rows and
\* the other variants' parts stay stored, and afterwards no VariantColorPart
\* references a missing variant.
C15_DeleteVariantRemovesOwnParts ==
    [][\A id \in DeleteVariantIds :
          (id \in DOMAIN variants /\ last'.op = "delete_style_variant" /\ last'.id = id
              /\ delete_style_variant(id)) =>
              /\ variants' = Remove(variants, id)
              /\ colorParts' = [i \in DOMAIN colorParts \ PartsOfVariant(id) |-> colorParts[i]]
              /\ materials' = materials
              /\ \A i \in DOMAIN colorParts' :
                    colorParts'[i].style_variant_id \in DOMAIN variants']_vars

(***************************************************************************)
(* C16.  Requests whose commit fails.                                      *)
(***************************************************************************)
FailIds == 1..MaxFailId
\* rows inserted so far, over all tables
IdsIssued ==
    (seq.styles - 1) + (seq.variants - 1) + (seq.parts - 1) + (seq.materials - 1)
        + (seq.samples - 1) + (seq.operations - 1)
FailStyleUpdates == StyleCreatePayloads
FailVariantPayloads ==
    Payloads(VariantRequired, {}, [VariantValues EXCEPT !.style_summary_id = {1, 2}])
FailVariantUpdates ==
    Payloads({}, {"style_summary_id", "color_parts"},
             [style_summary_id |-> {1, 2}, color_parts |-> {<<PayloadPart>>}])
FailPartPayloads ==
    Payloads(PartRequired, {},
             [style_variant_id |-> {1}, part_name |-> {"Body"}, colour_name |-> {"White"}])
FailMaterialPayloads ==
    Payloads(MaterialRequired, {},
             [style_variant_id |-> {1}, style_name |-> {"Polo"}, style_id |-> {"PS-001"},
              material |-> {"Yarn"}, uom |-> {"kg"}, consumption_per_piece |-> {Some(2)}])
FailMaterialUpdates ==
    Payloads({}, {"style_variant_id"}, [style_variant_id |-> {2}])
FailSamplePayloads ==
    Payloads(SampleRequired, {},
             [SampleValues EXCEPT !.style_id = {1, 2}, !.sample_id = {"SMP-1"}])
FailSampleUpdates ==
    Payloads({}, {"sample_type", "submit_status"},
             [sample_type |-> {NULL}, submit_status |-> {REJECT_REMAKE}])
FailOperationPayloads ==
    Payloads(OperationRequired, {}, [OperationValues EXCEPT !.sample_id = {1, 2}])

NextFail ==
    \/ \E p \in StyleCreatePayloads : IdsIssued < MaxFailCreated /\ create_style(p)
    \/ \E id \in FailIds, p \in FailStyleUpdates : update_style(id, p)
    \/ \E id \in FailIds : delete_style(id)
    \/ \E p \in FailVariantPayloads : IdsIssued < MaxFailCreated /\ create_style_variant(p)
    \/ \E id \in FailIds, p \in FailVariantUpdates : update_style_variant(id, p)
    \/ \E id \in FailIds : delete_style_variant(id)
    \/ \E p \in FailPartPayloads : IdsIssued < MaxFailCreated /\ create_color_part(p)
    \/ \E p \in FailMaterialPayloads :
          IdsIssued < MaxFailCreated /\ create_required_material(p)
    \/ \E id \in FailIds, p \in FailMaterialUpdates : update_required_material(id, p)
    \/ \E p \in FailSamplePayloads : IdsIssued < MaxFailCreated /\ create_sample(p)
    \/ \E id \in FailIds, p \in FailSampleUpdates :
          RoundBelowCap(id, p) /\ update_sample(id, p)
    \/ \E id \in FailIds : delete_sample(id)
    \/ \E p \in FailOperationPayloads :
          IdsIssued < MaxFailCreated /\ create_sample_operation(p)
    \/ \E id \in FailIds, p \in FailOperationPayloads : update_sample_operation(id, p)

SpecFail == Init /\ [][NextFail]_vars

C17_StyleIdStaysUnique ==
    /\ [](\A i, j \in DOMAIN styles : styles[i].style_id = styles[j].style_id => i = j)
    /\ [][/\ \A p \in StyleCreatePayloads :
                (last'.op = "create_style" /\ StyleIdTaken(p.style_id, {}) /\ create_style(p)) =>
                    last'.code >= 400 /\ UNCHANGED styles
          /\ \A id \in FailIds, p \in FailStyleUpdates :
                (last'.op = "update_style" /\ last'.id = id /\ id \in DOMAIN styles
                    /\ StyleIdTaken(p.style_id, {id}) /\ update_style(id, p)) =>
                    last'.code >= 400 /\ UNCHANGED styles]_vars

\* two styles are stored and an update_style that asked for the other row's
\* style_id has just been refused
C17_Witness ==
    /\ \E i, j \in DOMAIN styles : i # j
    /\ last = Resp("update_style", last.id, 500, NoBody)
    /\ last.id \in DOMAIN styles

(***************************************************************************)
(* SMV calculations and the remaining reads by id or key.                  *)
(***************************************************************************)
SmvRequired == {"sample_id", "buyer_name", "style_name", "total_smv"}
SmvDefaults ==
    [sample_id |-> NULL, buyer_name |-> NULL, style_name |-> NULL, category |-> NULL,
     gauge |-> NULL, total_smv |-> None, operations |-> NULL]

\* smv_calculations: NOT NULL columns
SmvRowOk(row) ==
    /\ row.sample_id # NULL
    /\ row.buyer_name # NULL
    /\ row.style_name # NULL
    /\ row.total_smv # None

\* POST /smv.  No try/except.
create_smv_calculation(p) ==
    LET row == Dump(p, SmvDefaults)
        id == NextId("smvs")
    IN  /\ IF SmvRowOk(row)
           THEN /\ smvs' = Insert(smvs, id, row)
                /\ seq' = Advance("smvs")
                /\ last' = Resp("create_smv_calculation", id, 201, [kind |-> "smv", row |-> row])
           ELSE /\ last' = Resp("create_smv_calculation", 0, 500, NoBody)
                /\ UNCHANGED <<smvs, seq>>
        /\ UNCHANGED <<styles, variants, colorParts, samples, operations, plans, materials, tnas,
                       opTypes, reqs, deletedStyles, sessions, boot>>

\* every table of the samples store
Store ==
    <<styles, variants, colorParts, samples, operations, plans, materials, tnas, opTypes, smvs>>

\* a read: query(...).filter(...).first(), 404 if it found nothing, else the row.
\* found is the set of matching ids; first() without ORDER BY returns any of them.
read_one(op, key, table, found, kind) ==
    /\ IF found = {}
       THEN last' = Resp(op, key, 404, NoBody)
       ELSE \E i \in found : last' = Resp(op, key, 200, [kind |-> kind, row |-> table[i]])
    /\ UNCHANGED <<Store, seq, reqs, deletedStyles, sessions, boot>>

\* GET /required-materials/{material_id}
get_required_material(id) ==
    read_one("get_required_material", id, materials, DOMAIN materials \cap {id}, "material")
\* GET /tna/{sample_id}
get_tna_by_sample_id(sid) ==
    read_one("get_tna_by_sample_id", sid, tnas,
             {i \in DOMAIN tnas : tnas[i].sample_id = sid}, "tna")
\* GET /plan/{sample_id}
get_plan_by_sample_id(sid) ==
    read_one("get_plan_by_sample_id", sid, plans, PlansOfSample(sid), "plan")
\* mutant: total_smv is read from a live operation of the sample when it has one
get_smv_by_sample_id_Recomputed(sid) ==
    LET found == {i \in DOMAIN smvs : smvs[i].sample_id = sid}
        live == {o \in DOMAIN operations :
                    /\ operations[o].sample_id \in DOMAIN samples
                    /\ samples[operations[o].sample_id].sample_id = sid}
    IN  /\ IF found = {}
           THEN last' = Resp("get_smv_by_sample_id", sid, 404, NoBody)
           ELSE \E i \in found :
                   last' = Resp("get_smv_by_sample_id", sid, 200,
                                [kind |-> "smv",
                                 row |-> IF live = {} THEN smvs[i]
                                         ELSE [smvs[i] EXCEPT !.total_smv =
                                                 operations[CHOOSE o \in live : TRUE].total_duration]])
        /\ UNCHANGED <<Store, seq, reqs, deletedStyles, sessions, boot>>

\* GET /smv/{sample_id}
get_smv_by_sample_id(sid) ==
    read_one("get_smv_by_sample_id", sid, smvs,
             {i \in DOMAIN smvs : smvs[i].sample_id = sid}, "smv")
\* GET /operations/{operation_id}
get_sample_operation(id) ==
    read_one("get_sample_operation", id, operations, DOMAIN operations \cap {id}, "operation")
\* GET /by-sample-id/{sample_id_str}
get_sample_by_sample_id(sid) ==
    read_one("get_sample_by_sample_id", sid, samples,
             {i \in DOMAIN samples : samples[i].sample_id = sid}, "sample")
\* GET /{sample_id}
get_sample(id) ==
    read_one("get_sample", id, samples, DOMAIN samples \cap {id}, "sample")

(***************************************************************************)
(* C18.  Requests for an id or key that matches no row.                    *)
(***************************************************************************)
LookupIds == 1..MaxLookupId
LookupKeys == {"SMP-1", "SMP-2"}
\* rows inserted so far, over all tables
RowsInserted ==
    (seq.styles - 1) + (seq.variants - 1) + (seq.materials - 1) + (seq.tnas - 1)
        + (seq.plans - 1) + (seq.opTypes - 1) + (seq.smvs - 1) + (seq.samples - 1)
        + (seq.operations - 1)
MayInsert == RowsInserted < MaxLookupCreated

LookupStylePayloads ==
    Payloads(StyleRequired, {}, [buyer_id |-> {1}, style_name |-> {"Polo"}, style_id |-> {"PS-001"}])
LookupVariantPayloads ==
    Payloads(VariantRequired, {}, [VariantValues EXCEPT !.style_summary_id = {1}])
LookupMaterialPayloads == FailMaterialPayloads
LookupTnaPayloads == MergeTnaPayloads
LookupPlanPayloads ==
    Payloads(PlanRequired, {},
             [sample_id |-> {"SMP-1"}, buyer_name |-> {"Acme"}, style_name |-> {"Polo"},
              sample_type |-> {"Proto"}])
LookupOpTypePayloads ==
    Payloads(OpTypeRequired, {}, [operation_type |-> {"Knitting"}, operation_name |-> {"Sleeve"}])
LookupSmvPayloads ==
    Payloads(SmvRequired, {},
             [sample_id |-> {"SMP-1"}, buyer_name |-> {"Acme"}, style_name |-> {"Polo"},
              total_smv |-> {Some(12)}])
LookupSamplePayloads ==
    Payloads(SampleRequired, {}, [SampleValues EXCEPT !.style_id = {1}, !.sample_id = {"SMP-1"}])
LookupOperationPayloads ==
    Payloads(OperationRequired, {}, [OperationValues EXCEPT !.sample_id = {1}])
LookupVariantUpdates == Payloads({}, {"colour_name"}, [colour_name |-> {"Red"}])
LookupSampleUpdates == Payloads({}, {"notes"}, [notes |-> {"redo"}])

NextLookup ==
    \/ \E p \in LookupStylePayloads : MayInsert /\ create_style(p)
    \/ \E p \in LookupVariantPayloads : MayInsert /\ create_style_variant(p)
    \/ \E p \in LookupMaterialPayloads : MayInsert /\ create_required_material(p)
    \/ \E p \in LookupTnaPayloads : MayInsert /\ create_tna(p)
    \/ \E p \in LookupPlanPayloads :
          (FirstPlan(p.sample_id) = {0} => MayInsert) /\ create_plan(p)
    \/ \E p \in LookupOpTypePayloads : MayInsert /\ create_operation_type(p)
    \/ \E p \in LookupSmvPayloads : MayInsert /\ create_smv_calculation(p)
    \/ \E p \in LookupSamplePayloads : MayInsert /\ create_sample(p)
    \/ \E p \in LookupOperationPayloads : MayInsert /\ create_sample_operation(p)
    \/ \E id \in LookupIds : get_style(id)
    \/ \E id \in LookupIds : get_style_variant(id)
    \/ \E id \in LookupIds : get_required_material(id)
    \/ \E sid \in LookupKeys : get_tna_by_sample_id(sid)
    \/ \E sid \in LookupKeys : get_plan_by_sample_id(sid)
    \/ \E sid \in LookupKeys : get_smv_by_sample_id(sid)
    \/ \E id \in LookupIds : get_sample_operation(id)
    \/ \E sid \in LookupKeys : get_sample_by_sample_id(sid)
    \/ \E id \in LookupIds : get_sample(id)
    \/ \E id \in LookupIds, p \in LookupStylePayloads : update_style(id, p)
    \/ \E id \in LookupIds, p \in LookupVariantUpdates : update_style_variant(id, p)
    \/ \E id \in LookupIds, p \in MergeMaterialUpdates : update_required_material(id, p)
    \/ \E id \in LookupIds, p \in MergeTnaUpdates : update_tna(id, p)
    \/ \E id \in LookupIds, p \in LookupOpTypePayloads : update_operation_type(id, p)
    \/ \E id \in LookupIds, p \in LookupOperationPayloads : update_sample_operation(id, p)
    \/ \E id \in LookupIds, p \in LookupSampleUpdates : update_sample(id, p)
    \/ \E id \in LookupIds : delete_style(id)
    \/ \E id \in LookupIds : delete_style_variant(id)
    \/ \E id \in LookupIds : delete_required_material(id)
    \/ \E id \in LookupIds : delete_tna(id)
    \/ \E id \in LookupIds : delete_operation_type(id)
    \/ \E id \in LookupIds : delete_sample_operation(id)
    \/ \E id \in LookupIds : delete_sample(id)

SpecLookup == Init /\ [][NextLookup]_vars

\* the table a route looks its id up in
TableOf(op) ==
    CASE op \in {"get_style", "update_style", "delete_style"} -> styles
      [] op \in {"get_style_variant", "update_style_variant", "delete_style_variant"} -> variants
      [] op \in {"get_required_material", "update_required_material",
                 "delete_required_material"} -> materials
      [] op \in {"update_tna", "delete_tna"} -> tnas
      [] op \in {"update_operation_type", "delete_operation_type"} -> opTypes
      [] op \in {"get_sample_operation", "update_sample_operation",
                 "delete_sample_operation"} -> operations
      [] op \in {"get_sample", "update_sample", "delete_sample"} -> samples
      [] OTHER -> Empty
ById ==
    {"get_style", "update_style", "delete_style", "get_style_variant", "update_style_variant",
     "delete_style_variant", "get_required_material", "update_required_material",
     "delete_required_material", "update_tna", "delete_tna", "update_operation_type",
     "delete_operation_type", "get_sample_operation", "update_sample_operation",
     "delete_sample_operation", "get_sample", "update_sample", "delete_sample"}
\* the rows a route that looks a sample_id string up would find
RowsOfKey(op, sid) ==
    CASE op = "get_tna_by_sample_id" -> {i \in DOMAIN tnas : tnas[i].sample_id = sid}
      [] op = "get_plan_by_sample_id" -> PlansOfSample(sid)
      [] op = "get_smv_by_sample_id" -> {i \in DOMAIN smvs : smvs[i].sample_id = sid}
      [] op = "get_sample_by_sample_id" -> {i \in DOMAIN samples : samples[i].sample_id = sid}
      [] OTHER -> {}
ByKey ==
    {"get_tna_by_sample_id", "get_plan_by_sample_id", "get_smv_by_sample_id",
     "get_sample_by_sample_id"}

\* C18: a get-by-id, update or delete request whose id, or sample_id key, matches
\* no stored row is answered 404 and no table changes; update_sample on a
\* missing id is answered 404, not 500.
C18_UnmatchedIdIs404 ==
    [][/\ (last'.op \in ById /\ last'.id \notin DOMAIN TableOf(last'.op)) =>
             last'.code = 404 /\ UNCHANGED Store
       /\ (last'.op \in ByKey /\ RowsOfKey(last'.op, last'.id) = {}) =>
             last'.code = 404 /\ UNCHANGED Store
       /\ \A id \in LookupIds, p \in LookupSampleUpdates :
             (last'.op = "update_sample" /\ last'.id = id /\ id \notin DOMAIN samples
                 /\ update_sample(id, p)) => last'.code = 404 /\ UNCHANGED Store]_vars

\* an update_sample for an id that is not stored, while another sample is, has
\* just been answered 404
C18_Witness ==
    /\ last.op = "update_sample"
    /\ last.code = 404
    /\ last.id \notin DOMAIN samples
    /\ samples # Empty

(***************************************************************************)
(* update_sample as its statements: the SELECT that loads the row, then    *)
(* the commit.  Other requests' statements may run between the two.        *)
(***************************************************************************)
\* sample = db.query(Sample).filter(Sample.id == sample_id).first(); 404 if none
update_sample_query(c, id, p) ==
    /\ c \notin DOMAIN reqs
    /\ IF id \notin DOMAIN samples
       THEN last' = Resp("update_sample", id, 404, NoBody) /\ UNCHANGED reqs
       ELSE /\ Begin(c, [op |-> "update_sample", id |-> id, payload |-> p,
                         loaded |-> samples[id]])
            /\ UNCHANGED last
    /\ UNCHANGED <<Store, seq, deletedStyles, sessions, boot>>

\* the row the commit leaves: round += 1 and the setattr loop act on the loaded
\* object, and the UPDATE carries the attributes that differ from the loaded ones
update_sample_written(c) ==
    Flush(samples[reqs[c].id], reqs[c].loaded,
          update_sample_row(reqs[c].loaded, reqs[c].payload))

\* db.commit(); db.refresh(sample); return sample
update_sample_finish(c) ==
    /\ c \in DOMAIN reqs /\ reqs[c].op = "update_sample"
    /\ LET id == reqs[c].id
       IN  IF id \in DOMAIN samples /\ SampleUpdateOk(update_sample_written(c))
           THEN /\ samples' = [samples EXCEPT ![id] = update_sample_written(c)]
                /\ last' = Resp("update_sample", id, 200,
                                [kind |-> "sample", row |-> update_sample_written(c)])
           ELSE last' = Resp("update_sample", id, 500, NoBody) /\ UNCHANGED samples
    /\ Finish(c)
    /\ UNCHANGED <<styles, variants, colorParts, operations, plans, materials, tnas, opTypes,
                   smvs, seq, deletedStyles, sessions, boot>>

UpdateClients == 1..MaxUpdateClients
UpdateSampleIds == 1..MaxUpdateSampleId
ConcurrentSamplePayloads ==
    Payloads(SampleRequired, {"notes"},
             [SampleValues EXCEPT !.style_id = {1}, !.sample_id = {"SMP-1"}]
                 @@ [notes |-> {"redo"}])
ConcurrentSampleUpdates ==
    Payloads({}, {"submit_status", "notes"},
             [submit_status |-> {REJECT_REMAKE}, notes |-> {"redo", "ok"}])

NextSampleRace ==
    \/ \E p \in LookupStylePayloads : styles = Empty /\ create_style(p)
    \/ \E p \in ConcurrentSamplePayloads :
          NextId("samples") <= MaxUpdateSampleId /\ create_sample(p)
    \/ \E c \in UpdateClients, id \in UpdateSampleIds, p \in ConcurrentSampleUpdates :
          update_sample_query(c, id, p)
    \/ \E c \in UpdateClients :
          /\ c \in DOMAIN reqs
          /\ reqs[c].id \in DOMAIN samples => update_sample_written(c).round <= MaxRound
          /\ update_sample_finish(c)

SpecSampleRace == Init /\ [][NextSampleRace]_vars

(***************************************************************************)
(* C19.  Concurrent rejects.                                               *)
(***************************************************************************)
\* C19: every update_sample with submit_status "Reject and Request for remake"
\* that commits raises the stored round by one, whatever other update_sample
\* requests ran between its read and its commit, so k committed rejects leave
\* the round at its initial value plus k.
C19_NoRejectIncrementLost ==
    [][\A c \in UpdateClients :
          (/\ c \in DOMAIN reqs
           /\ Attr(reqs[c].payload, "submit_status", NULL) = REJECT_REMAKE
           /\ update_sample_finish(c)
           /\ last'.code = 200) =>
              samples'[reqs[c].id].round = samples[reqs[c].id].round + 1]_vars

(***************************************************************************)
(* C20.  Concurrent updates of one row.                                    *)
(***************************************************************************)
\* C20: when an update_sample commits after another request has changed a field
\* it sets too (the stored value is no longer the one it loaded), the request
\* succeeds and the field holds the value of this later commit.
C20_LastWriteWins ==
    [][\A c \in UpdateClients :
          (c \in DOMAIN reqs /\ reqs[c].id \in DOMAIN samples /\ update_sample_finish(c)) =>
              /\ last'.code = 200
              /\ \A f \in DOMAIN reqs[c].payload :
                    samples[reqs[c].id][f] # reqs[c].loaded[f] =>
                        samples'[reqs[c].id][f] = reqs[c].payload[f]]_vars

(***************************************************************************)
(* The session dependencies: get_db and get_db_<store>.                    *)
(*     db = SessionLocal<Store>(); try: yield db; finally: db.close()      *)
(* The framework runs the generator up to its yield before the route and   *)
(* resumes it, or throws the route's exception into it, after the route.   *)
(***************************************************************************)
SessionDependencies ==
    {"get_db", "get_db_clients", "get_db_samples", "get_db_users", "get_db_orders",
     "get_db_merchandiser"}
\* the sessionmaker each dependency calls
StoreOf(dep) ==
    CASE dep = "get_db_clients" -> "clients"
      [] dep = "get_db_users" -> "users"
      [] dep = "get_db_orders" -> "orders"
      [] dep = "get_db_merchandiser" -> "merchandiser"
      [] OTHER -> "samples"
\* how a route leaves: return, raise HTTPException, raise anything else
RouteOutcomes == {"returned", "http_exception", "exception"}

\* mutant: "yield db" followed by db.close() with no try/finally: an exception
\* thrown in at the yield leaves the generator before the close
finally_runs_OnReturnOnly(outcome) == outcome = "returned"

\* try: yield db / finally: db.close() -- the close runs however the yield is left
finally_runs(outcome) == outcome \in RouteOutcomes

\* db = SessionLocal...(); yield db
get_db_acquire(r, dep) ==
    /\ r \notin DOMAIN sessions
    /\ sessions' = Insert(sessions, r, [store |-> StoreOf(dep), state |-> "open", closes |-> 0,
                                        phase |-> "route", outcome |-> "none"])
    /\ UNCHANGED <<Store, seq, reqs, last, deletedStyles, boot>>

\* the route function runs with the session and leaves
route_exit(r, outcome) ==
    /\ r \in DOMAIN sessions /\ sessions[r].phase = "route"
    /\ sessions' = [sessions EXCEPT ![r].phase = "exited", ![r].outcome = outcome]
    /\ UNCHANGED <<Store, seq, reqs, last, deletedStyles, boot>>

\* the generator is resumed (or the exception thrown into it); the request ends
get_db_exit(r) ==
    /\ r \in DOMAIN sessions /\ sessions[r].phase = "exited"
    /\ sessions' =
          [sessions EXCEPT ![r] =
              IF finally_runs(@.outcome)
              THEN [@ EXCEPT !.state = "closed", !.closes = @ + 1, !.phase = "ended"]
              ELSE [@ EXCEPT !.phase = "ended"]]
    /\ UNCHANGED <<Store, seq, reqs, last, deletedStyles, boot>>

Requests == 1..MaxRequests

NextSession ==
    \/ \E r \in Requests, dep \in SessionDependencies : get_db_acquire(r, dep)
    \/ \E r \in Requests, o \in RouteOutcomes : route_exit(r, o)
    \/ \E r \in Requests : get_db_exit(r)

\* a route is synchronous code without loops, and the framework always resumes
\* the dependency after it
SpecSession ==
    /\ Init /\ [][NextSession]_vars
    /\ \A r \in Requests :
          /\ WF_vars(\E o \in RouteOutcomes : route_exit(r, o))
          /\ WF_vars(get_db_exit(r))

(***************************************************************************)
(* C21.  Every session is closed, once.                                    *)
(***************************************************************************)
\* C21: a session handed out by get_db or a get_db_<store> dependency is
\* eventually closed, and closed exactly once, whether the route returned,
\* raised HTTPException or raised another exception; no request has ended with
\* its session open.
C21_SessionClosedExactlyOnce ==
    /\ [](\A r \in DOMAIN sessions :
            /\ sessions[r].closes <= 1
            /\ sessions[r].state = "closed" <=> sessions[r].closes = 1
            /\ sessions[r].phase = "ended" => sessions[r].state = "closed")
    /\ \A r \in Requests :
          (r \in DOMAIN sessions) ~> (r \in DOMAIN sessions /\ sessions[r].closes = 1)

\* every request has ended, one of them after an exception that is not an
\* HTTPException, and every session is closed
C21_Witness ==
    /\ DOMAIN sessions = Requests
    /\ \A r \in Requests : sessions[r].phase = "ended" /\ sessions[r].state = "closed"
    /\ \E r \in Requests : sessions[r].outcome = "exception"

(***************************************************************************)
(* init_db: create the tables of each database, retrying the connection.   *)
(*   boot.db       index into databases of the one being initialised       *)
(*   boot.attempt  the inner loop's variable                               *)
(*   boot.tried    per database, the create_all calls made                 *)
(*   boot.sleeps   per database, the time.sleep calls made                 *)
(*   boot.waited   seconds slept in all                                    *)
(*   boot.status   "running", "returned" (True), or the exception raised   *)
(***************************************************************************)
max_retries == 5
retry_interval == 5
databases == <<"Clients", "Samples", "Users", "Orders", "Merchandiser">>

\* mutant: "if attempt < max_retries" -- the last failure sleeps as well and is
\* not raised
may_retry_AfterLast(attempt) == attempt < max_retries

\* if attempt < max_retries - 1
may_retry(attempt) == attempt < max_retries - 1

\* the outer loop goes to the next database, or init_db returns True
next_database(b) ==
    IF b.db = Len(databases)
    THEN [b EXCEPT !.db = @ + 1, !.attempt = 0, !.status = "returned"]
    ELSE [b EXCEPT !.db = @ + 1, !.attempt = 0]

counted(b) == [b EXCEPT !.tried[b.db] = @ + 1]

\* create_all succeeds: break
init_db_connected ==
    /\ boot.status = "running"
    /\ boot' = next_database(counted(boot))
    /\ UNCHANGED <<Store, seq, reqs, last, deletedStyles, sessions>>

\* create_all raises OperationalError: sleep and go round, or re-raise
init_db_operational_error ==
    /\ boot.status = "running"
    /\ boot' =
          LET b == counted(boot)
          IN  IF may_retry(b.attempt)
              THEN LET slept == [b EXCEPT !.sleeps[b.db] = @ + 1,
                                          !.waited = @ + retry_interval]
                   IN  IF slept.attempt + 1 < max_retries
                       THEN [slept EXCEPT !.attempt = @ + 1]
                       ELSE next_database(slept)
              ELSE [b EXCEPT !.status = "OperationalError"]
    /\ UNCHANGED <<Store, seq, reqs, last, deletedStyles, sessions>>

\* create_all raises something that is not an OperationalError: not caught
init_db_other_error ==
    /\ boot.status = "running"
    /\ boot' = [counted(boot) EXCEPT !.status = "Exception"]
    /\ UNCHANGED <<Store, seq, reqs, last, deletedStyles, sessions>>

NextBoot ==
    \/ init_db_connected
    \/ init_db_operational_error
    \/ init_db_other_error

SpecBoot == Init /\ [][NextBoot]_vars

RECURSIVE SumTo(_, _)
SumTo(f, n) == IF n = 0 THEN 0 ELSE f[n] + SumTo(f, n - 1)

(***************************************************************************)
(* C22.  Startup retries.                                                  *)
(***************************************************************************)
\* C22: init_db makes at most 5 attempts on a database and sleeps 5 seconds
\* after each failed attempt but the 5th; a success moves on to the next
\* database; when the 5th attempt fails with a connection error the error is
\* raised, no later database is attempted and init_db does not return True.
C22_FiveAttemptsThenFatal ==
    /\ [](/\ \A d \in DOMAIN databases :
                /\ boot.tried[d] <= max_retries
                /\ boot.sleeps[d] <= max_retries - 1
                /\ d > boot.db => boot.tried[d] = 0 /\ boot.sleeps[d] = 0
                /\ (d < boot.db) => boot.tried[d] >= 1 /\ boot.sleeps[d] = boot.tried[d] - 1
          /\ boot.waited = retry_interval * SumTo(boot.sleeps, Len(databases))
          /\ boot.status = "returned" => boot.db = Len(databases) + 1
          /\ boot.status = "OperationalError" =>
                /\ boot.db \in DOMAIN databases
                /\ boot.tried[boot.db] = max_retries
                /\ boot.sleeps[boot.db] = max_retries - 1)
    /\ [][/\ boot.status # "running" => UNCHANGED boot
          /\ (boot'.status = "running" /\ boot'.db = boot.db) =>
                /\ boot'.tried[boot.db] = boot.tried[boot.db] + 1
                /\ boot'.sleeps[boot.db] = boot.sleeps[boot.db] + 1
                /\ boot'.waited = boot.waited + retry_interval]_vars

\* the second database was reached after two failed attempts on the first and
\* gave a connection error five times: init_db has raised
C22_Witness ==
    /\ boot.status = "OperationalError"
    /\ boot.db = 2
    /\ boot.tried = <<3, 5, 0, 0, 0>>
    /\ boot.waited = 30

(***************************************************************************)
(* The samples router: its routes in the order they are declared, and the  *)
(* framework's dispatch.  A path is the sequence of its segments ("/" is   *)
(* the empty sequence); a "{name}" segment of a route matches any one      *)
(* segment, whatever the type annotated on the parameter.                  *)
(***************************************************************************)
Route(method, path, endpoint) == [method |-> method, path |-> path, endpoint |-> endpoint]
PathParams ==
    {"{style_id}", "{variant_id}", "{material_id}", "{tna_id}", "{sample_id}",
     "{operation_id}", "{sample_id_str}"}

\* mutant: the three generic routes are declared first
routes_GenericFirst ==
    <<Route("PUT", <<"{sample_id}">>, "update_sample"),
      Route("DELETE", <<"{sample_id}">>, "delete_sample"),
      Route("GET", <<"{sample_id}">>, "get_sample"),
      Route("POST", <<"styles">>, "create_style"),
      Route("GET", <<"styles">>, "get_styles"),
      Route("GET", <<"styles", "{style_id}">>, "get_style"),
      Route("PUT", <<"styles", "{style_id}">>, "update_style"),
      Route("DELETE", <<"styles", "{style_id}">>, "delete_style"),
      Route("POST", <<"style-variants">>, "create_style_variant"),
      Route("GET", <<"style-variants">>, "get_style_variants"),
      Route("GET", <<"style-variants", "{variant_id}">>, "get_style_variant"),
      Route("PUT", <<"style-variants", "{variant_id}">>, "update_style_variant"),
      Route("DELETE", <<"style-variants", "{variant_id}">>, "delete_style_variant"),
      Route("POST", <<"required-materials">>, "create_required_material"),
      Route("GET", <<"required-materials">>, "get_required_materials"),
      Route("GET", <<"required-materials", "{material_id}">>, "get_required_material"),
      Route("PUT", <<"required-materials", "{material_id}">>, "update_required_material"),
      Route("DELETE", <<"required-materials", "{material_id}">>, "delete_required_material"),
      Route("POST", <<"tna">>, "create_tna"),
      Route("GET", <<"tna">>, "get_tna_records"),
      Route("PUT", <<"tna", "{tna_id}">>, "update_tna"),
      Route("DELETE", <<"tna", "{tna_id}">>, "delete_tna"),
      Route("GET", <<"tna", "{sample_id}">>, "get_tna_by_sample_id"),
      Route("POST", <<"plan">>, "create_plan"),
      Route("GET", <<"plan">>, "get_plan_records"),
      Route("GET", <<"plan", "{sample_id}">>, "get_plan_by_sample_id"),
      Route("POST", <<"operations-master">>, "create_operation_type"),
      Route("GET", <<"operations-master">>, "get_operation_types"),
      Route("PUT", <<"operations-master", "{operation_id}">>, "update_operation_type"),
      Route("DELETE", <<"operations-master", "{operation_id}">>, "delete_operation_type"),
      Route("POST", <<"smv">>, "create_smv_calculation"),
      Route("GET", <<"smv">>, "get_smv_calculations"),
      Route("GET", <<"smv", "{sample_id}">>, "get_smv_by_sample_id"),
      Route("POST", <<"operations">>, "create_sample_operation"),
      Route("GET", <<"operations">>, "get_sample_operations"),
      Route("GET", <<"operations", "{operation_id}">>, "get_sample_operation"),
      Route("PUT", <<"operations", "{operation_id}">>, "update_sample_operation"),
      Route("DELETE", <<"operations", "{operation_id}">>, "delete_sample_operation"),
      Route("POST", << >>, "create_sample"),
      Route("GET", << >>, "get_samples"),
      Route("GET", <<"by-sample-id", "{sample_id_str}">>, "get_sample_by_sample_id")>>

\* @router.<method>("<path>") ... def <endpoint>, top to bottom
routes ==
    <<Route("POST", <<"styles">>, "create_style"),
      Route("GET", <<"styles">>, "get_styles"),
      Route("GET", <<"styles", "{style_id}">>, "get_style"),
      Route("PUT", <<"styles", "{style_id}">>, "update_style"),
      Route("DELETE", <<"styles", "{style_id}">>, "delete_style"),
      Route("POST", <<"style-variants">>, "create_style_variant"),
      Route("GET", <<"style-variants">>, "get_style_variants"),
      Route("GET", <<"style-variants", "{variant_id}">>, "get_style_variant"),
      Route("PUT", <<"style-variants", "{variant_id}">>, "update_style_variant"),
      Route("DELETE", <<"style-variants", "{variant_id}">>, "delete_style_variant"),
      Route("POST", <<"required-materials">>, "create_required_material"),
      Route("GET", <<"required-materials">>, "get_required_materials"),
      Route("GET", <<"required-materials", "{material_id}">>, "get_required_material"),
      Route("PUT", <<"required-materials", "{material_id}">>, "update_required_material"),
      Route("DELETE", <<"required-materials", "{material_id}">>, "delete_required_material"),
      Route("POST", <<"tna">>, "create_tna"),
      Route("GET", <<"tna">>, "get_tna_records"),
      Route("PUT", <<"tna", "{tna_id}">>, "update_tna"),
      Route("DELETE", <<"tna", "{tna_id}">>, "delete_tna"),
      Route("GET", <<"tna", "{sample_id}">>, "get_tna_by_sample_id"),
      Route("POST", <<"plan">>, "create_plan"),
      Route("GET", <<"plan">>, "get_plan_records"),
      Route("GET", <<"plan", "{sample_id}">>, "get_plan_by_sample_id"),
      Route("POST", <<"operations-master">>, "create_operation_type"),
      Route("GET", <<"operations-master">>, "get_operation_types"),
      Route("PUT", <<"operations-master", "{operation_id}">>, "update_operation_type"),
      Route("DELETE", <<"operations-master", "{operation_id}">>, "delete_operation_type"),
      Route("POST", <<"smv">>, "create_smv_calculation"),
      Route("GET", <<"smv">>, "get_smv_calculations"),
      Route("GET", <<"smv", "{sample_id}">>, "get_smv_by_sample_id"),
      Route("POST", <<"operations">>, "create_sample_operation"),
      Route("GET", <<"operations">>, "get_sample_operations"),
      Route("GET", <<"operations", "{operation_id}">>, "get_sample_operation"),
      Route("PUT", <<"operations", "{operation_id}">>, "update_sample_operation"),
      Route("DELETE", <<"operations", "{operation_id}">>, "delete_sample_operation"),
      Route("POST", << >>, "create_sample"),
      Route("GET", << >>, "get_samples"),
      Route("GET", <<"by-sample-id", "{sample_id_str}">>, "get_sample_by_sample_id"),
      Route("PUT", <<"{sample_id}">>, "update_sample"),
      Route("DELETE", <<"{sample_id}">>, "delete_sample"),
      Route("GET", <<"{sample_id}">>, "get_sample")>>

\* the route's path regex matches the request path
path_matches(route, path) ==
    /\ Len(route.path) = Len(path)
    /\ \A i \in DOMAIN path : route.path[i] \in PathParams \/ route.path[i] = path[i]

\* the first route that matches path and method; failing that 405 if a route
\* matches the path alone, else 404
dispatch(method, path) ==
    LET full == {i \in DOMAIN routes :
                    path_matches(routes[i], path) /\ routes[i].method = method}
        partial == {i \in DOMAIN routes : path_matches(routes[i], path)}
    IN  IF full # {}
        THEN [code |-> 200,
              endpoint |-> routes[CHOOSE i \in full : \A j \in full : i <= j].endpoint]
        ELSE IF partial # {} THEN [code |-> 405, endpoint |-> "none"]
        ELSE [code |-> 404, endpoint |-> "none"]

\* a request arrives and is routed
dispatch_request(method, path) ==
    /\ last' = Resp("dispatch", 0, dispatch(method, path).code,
                    [kind |-> "route", method |-> method, path |-> path,
                     endpoint |-> dispatch(method, path).endpoint])
    /\ UNCHANGED <<Store, seq, reqs, deletedStyles, sessions, boot>>

Methods == {"GET", "POST", "PUT", "DELETE"}
PathSegments ==
    {"styles", "style-variants", "required-materials", "tna", "plan", "operations-master",
     "smv", "operations", "by-sample-id", "1", "SMP-1"}
\* what follows the first segment: an id, a sample_id, a literal
TailSegments == {"1", "SMP-1", "styles"}
RECURSIVE PathsOfLen(_)
PathsOfLen(n) ==
    IF n = 0 THEN {<< >>}
    ELSE IF n = 1 THEN {<<x>> : x \in PathSegments}
    ELSE {Append(q, x) : q \in PathsOfLen(n - 1), x \in TailSegments}
RequestPaths == UNION {PathsOfLen(n) : n \in 0..MaxPathLen}

NextDispatch == \E m \in Methods, q \in RequestPaths : dispatch_request(m, q)

SpecDispatch == Init /\ [][NextDispatch]_vars

\* the routes whose path starts with a literal segment, and the root routes
LiteralRoutes == {i \in DOMAIN routes : routes[i].path = << >> \/ routes[i].path[1] \notin PathParams}
GenericEndpoints == {"get_sample", "update_sample", "delete_sample"}

(***************************************************************************)
(* C23.  Literal paths are not captured by /{sample_id}.                   *)
(***************************************************************************)
\* C23: a request whose method and path match a route with a literal path is
\* dispatched to that route's handler, never to the GET, PUT or DELETE
\* /{sample_id} handler.
C23_LiteralRouteWins ==
    last.op = "dispatch" =>
        \A i \in LiteralRoutes :
            (routes[i].method = last.body.method /\ path_matches(routes[i], last.body.path)) =>
                /\ last.code = 200
                /\ last.body.endpoint = routes[i].endpoint
                /\ last.body.endpoint \notin GenericEndpoints

\* GET /styles went to get_styles, the one-segment path /{sample_id} matches too
C23_Witness ==
    /\ last.op = "dispatch"
    /\ last.body.method = "GET" /\ last.body.path = <<"styles">>
    /\ last.body.endpoint = "get_styles"
    /\ \E i \in DOMAIN routes :
          routes[i].endpoint = "get_sample" /\ path_matches(routes[i], last.body.path)

(***************************************************************************)
(* List reads: order_by(id.desc()).offset(skip).limit(limit).all()         *)
(***************************************************************************)
\* Query(default=1000, ge=1, le=10000)
limit_le == 10000

\* mutant: order_by(StyleSummary.id) -- ascending
order_by_id_desc_Ascending(ids) ==
    LET RECURSIVE asc(_)
        asc(S) == IF S = {} THEN << >>
                  ELSE LET m == CHOOSE x \in S : \A y \in S : x <= y
                       IN  <<m>> \o asc(S \ {m})
    IN  asc(ids)

\* the ids, largest first
order_by_id_desc(ids) ==
    LET RECURSIVE desc(_)
        desc(S) == IF S = {} THEN << >>
                   ELSE LET m == CHOOSE x \in S : \A y \in S : y <= x
                        IN  <<m>> \o desc(S \ {m})
    IN  desc(ids)

\* OFFSET n, then LIMIT n
offset(q, n) == SubSeq(q, n + 1, Len(q))
limit(q, n) == SubSeq(q, 1, IF n < Len(q) THEN n ELSE Len(q))

\* skip: ge=0; limit: ge=1, le=10000 -- a request that fails them is answered
\* 422 before the route runs
query_valid(skip, lim) == skip >= 0 /\ lim >= 1 /\ lim <= limit_le

\* GET /styles
get_styles(skip, lim) ==
    /\ last' =
          IF query_valid(skip, lim)
          THEN LET ids == limit(offset(order_by_id_desc(DOMAIN styles), skip), lim)
               IN  Resp("get_styles", 0, 200,
                        [kind |-> "styles", skip |-> skip, limit |-> lim,
                         rows |-> [k \in DOMAIN ids |-> [id |-> ids[k], row |-> styles[ids[k]]]]])
          ELSE Resp("get_styles", 0, 422,
                    [kind |-> "styles", skip |-> skip, limit |-> lim, rows |-> << >>])
    /\ UNCHANGED <<Store, seq, reqs, deletedStyles, sessions, boot>>

ListStyleIds == 1..MaxListStyleId
ListStylePayloads ==
    Payloads(StyleRequired, {},
             [buyer_id |-> {1}, style_name |-> {"Polo"},
              style_id |-> {"PS-001", "PS-002", "PS-003"}])
ListSkips == {-1, 0, 1, 2}
ListLimits == {0, 1, 2, limit_le, limit_le + 1}

NextList ==
    \/ \E p \in ListStylePayloads : NextId("styles") <= MaxListStyleId /\ create_style(p)
    \/ \E id \in ListStyleIds : delete_style(id)
    \/ \E skip \in ListSkips, lim \in ListLimits : get_styles(skip, lim)

SpecList == Init /\ [][NextList]_vars

(***************************************************************************)
(* C24.  get_styles pages the styles, newest id first.                     *)
(***************************************************************************)
\* C24: get_styles with skip s >= 0 and limit 1 <= l <= 10000 answers the
\* stored styles in descending id order without the s largest ids, l of them
\* at most; a negative skip or a limit outside [1, 10000] is rejected with no
\* rows, so no answer has more than 10000 rows.
C24_StylesPagedNewestFirst ==
    [][last'.op = "get_styles" =>
          LET b == last'.body
              n == Cardinality(DOMAIN styles)
          IN  IF b.skip >= 0 /\ b.limit >= 1 /\ b.limit <= 10000
              THEN /\ last'.code = 200
                   /\ Len(b.rows) = IF n - b.skip <= 0 THEN 0
                                    ELSE IF n - b.skip < b.limit THEN n - b.skip
                                    ELSE b.limit
                   /\ \A k \in DOMAIN b.rows :
                         /\ b.rows[k].id \in DOMAIN styles
                         /\ b.rows[k].row = styles[b.rows[k].id]
                         /\ Cardinality({i \in DOMAIN styles : i > b.rows[k].id})
                               = b.skip + k - 1
              ELSE /\ last'.code \in 400..499
                   /\ b.rows = << >>]_vars

\* three styles are stored, one id is missing between them, and
\* get_styles(skip=1, limit=1) has answered the middle one
C24_Witness ==
    /\ last.op = "get_styles" /\ last.code = 200
    /\ last.body.skip = 1 /\ last.body.limit = 1
    /\ Len(last.body.rows) = 1
    /\ \E i, j \in DOMAIN styles : i < last.body.rows[1].id /\ last.body.rows[1].id < j

(***************************************************************************)
(* C25.  SMV calculations next to the live samples and operations.         *)
(***************************************************************************)
SmvSampleIds == 1..MaxSmvSampleId
SmvOperationIds == 1..MaxSmvOperationId
SmvKeys == {"SMP-1", "SMP-2"}
SmvSamplePayloads ==
    Payloads(SampleRequired, {}, [LifecycleSampleValues EXCEPT !.sample_id = {"SMP-1"}])
SmvSampleUpdates == Payloads({}, {"notes"}, [notes |-> {"redo"}])
SmvOperationPayloads ==
    Payloads(OperationRequired, {"number_of_operation", "duration"},
             [OperationValues EXCEPT !.sample_id = SmvSampleIds, !.number_of_operation = {3},
                                     !.duration = {Some(2)}])
SmvPayloads ==
    Payloads(SmvRequired, {"operations"},
             [sample_id |-> {"SMP-1"}, buyer_name |-> {"Acme"}, style_name |-> {"Polo"},
              total_smv |-> {Some(12), Some(30)}, operations |-> {"[Front Part x3]"}])

NextSmv ==
    \/ \E p \in LifecycleStylePayloads : styles = Empty /\ create_style(p)
    \/ \E p \in SmvSamplePayloads : NextId("samples") <= MaxSmvSampleId /\ create_sample(p)
    \/ \E id \in SmvSampleIds, p \in SmvSampleUpdates : update_sample(id, p)
    \/ \E id \in SmvSampleIds : delete_sample(id)
    \/ \E p \in SmvOperationPayloads :
          NextId("operations") <= MaxSmvOperationId /\ create_sample_operation(p)
    \/ \E id \in SmvOperationIds, p \in SmvOperationPayloads : update_sample_operation(id, p)
    \/ \E id \in SmvOperationIds : delete_sample_operation(id)
    \/ \E p \in SmvPayloads : NextId("smvs") <= MaxSmvId /\ create_smv_calculation(p)
    \/ \E sid \in SmvKeys : get_smv_by_sample_id(sid)

SpecSmv == Init /\ [][NextSmv]_vars

\* C25: a stored SMVCalculation row never changes and is never removed:
\* creating one adds exactly the row made of the caller's values, every create,
\* update or delete of a Sample or SampleOperation leaves all SMVCalculation
\* rows as they were, and get_smv_by_sample_id answers a stored row of that
\* sample_id as it was created (404 when there is none), whatever the live
\* operations of the sample add up to.
C25_SmvIsWriteOnce ==
    /\ [](last.op = "get_smv_by_sample_id" =>
             LET found == {i \in DOMAIN smvs : smvs[i].sample_id = last.id}
             IN  IF found = {} THEN last.code = 404
                 ELSE /\ last.code = 200
                      /\ \E i \in found : last.body.row = smvs[i])
    /\ [][/\ \A i \in DOMAIN smvs : i \in DOMAIN smvs' /\ smvs'[i] = smvs[i]
          /\ last'.op \in {"create_sample", "update_sample", "delete_sample",
                           "create_sample_operation", "update_sample_operation",
                           "delete_sample_operation"} => smvs' = smvs
          /\ last'.op = "create_smv_calculation" /\ last'.code = 201 =>
                /\ last'.id \notin DOMAIN smvs
                /\ DOMAIN smvs' = DOMAIN smvs \cup {last'.id}
                /\ smvs'[last'.id] = last'.body.row
                /\ last'.body.row.total_smv \in {Some(12), Some(30)}
                /\ last'.body.row.operations \in {NULL, "[Front Part x3]"}]_vars

\* a snapshot with total_smv 12 has been read back while the one live operation
\* of the sample has a total duration of 6
C25_Witness ==
    /\ last.op = "get_smv_by_sample_id" /\ last.code = 200
    /\ last.body.row.total_smv = Some(12)
    /\ \E o \in DOMAIN operations :
          /\ operations[o].sample_id \in DOMAIN samples
          /\ samples[operations[o].sample_id].sample_id = last.id
          /\ operations[o].total_duration = Some(6)

(***************************************************************************)
(* C26.  The round of a stored sample.                                     *)
(* SampleBase.round is "int = 1": the caller of POST / may send any        *)
(* integer, and the column takes it.                                       *)
(***************************************************************************)
RoundSampleIds == 1..MaxRoundSampleId
RoundValues == {-1, 0, 1, 2}
RoundSamplePayloads ==
    Payloads(SampleRequired, {"round"},
             [sample_id |-> {"SMP-1", "SMP-2"}, buyer_id |-> {1}, style_id |-> {1},
              sample_type |-> {"Proto"}, round |-> RoundValues])
RoundSampleUpdates ==
    Payloads({}, {"submit_status"}, [submit_status |-> {REJECT_REMAKE, "Approve"}])

NextRound ==
    \/ \E p \in LifecycleStylePayloads : styles = Empty /\ create_style(p)
    \/ \E p \in RoundSamplePayloads : NextId("samples") <= MaxRoundSampleId /\ create_sample(p)
    \/ \E id \in RoundSampleIds, p \in RoundSampleUpdates :
          RoundBelowCap(id, p) /\ update_sample(id, p)
    \/ \E id \in RoundSampleIds : delete_sample(id)

SpecRound == Init /\ [][NextRound]_vars

\* C26: every stored Sample has an integer round of at least 1: a sample is
\* created with round 1 and no operation lowers the round of a stored sample.
C26_RoundAtLeastOne ==
    /\ [](\A i \in DOMAIN samples : samples[i].round \in Nat /\ samples[i].round >= 1)
    /\ [][/\ last'.op = "create_sample" /\ last'.code = 201 => samples'[last'.id].round = 1
          /\ \A i \in DOMAIN samples \cap DOMAIN samples' :
                samples'[i].round >= samples[i].round]_vars

(***************************************************************************)
(* C27.  style_category and gauge of a variant follow the parent style.    *)
(***************************************************************************)
DerivedStyleIds == 1..MaxDerivedStyleId
DerivedVariantIds == 1..MaxDerivedVariantId
DerivedStylePayloads ==
    Payloads(StyleRequired, {"product_category", "gauge"},
             [buyer_id |-> {1}, style_name |-> {"Polo"}, style_id |-> {"PS-001", "PS-002"},
              product_category |-> {"Knit"}, gauge |-> {"12GG"}])
DerivedStyleUpdates ==
    Payloads({}, {"product_category", "gauge"},
             [product_category |-> {"Woven", NULL}, gauge |-> {"7GG"}])
DerivedVariantPayloads ==
    Payloads(VariantRequired, {}, [VariantValues EXCEPT !.style_summary_id = DerivedStyleIds])

NextDerived ==
    \/ \E p \in DerivedStylePayloads : NextId("styles") <= MaxDerivedStyleId /\ create_style(p)
    \/ \E id \in DerivedStyleIds, p \in DerivedStyleUpdates : update_style(id, p)
    \/ \E p \in DerivedVariantPayloads :
          NextId("variants") <= MaxDerivedVariantId /\ create_style_variant(p)
    \/ \E id \in DerivedVariantIds : get_style_variant(id)

SpecDerived == Init /\ [][NextDerived]_vars

\* C27: whatever update_style calls came before, a read of a stored variant
\* answers style_category equal to the product_category and gauge equal to the
\* gauge that its parent style (the style named by style_summary_id) has at the
\* time of the read, and the variant row itself holds neither value.
C27_DerivedFromParentAtRead ==
    /\ \A v \in DOMAIN variants :
          /\ "style_category" \notin DOMAIN variants[v]
          /\ "gauge" \notin DOMAIN variants[v]
          /\ variants[v].style_summary_id \in DOMAIN styles
    /\ last.op = "get_style_variant" /\ last.code = 200 =>
          /\ last.body.style_category = styles[variants[last.id].style_summary_id].product_category
          /\ last.body.gauge = styles[variants[last.id].style_summary_id].gauge

\* a variant of style 2, created while the style had product_category "Knit"
\* and gauge "12GG", is read after update_style set them to "Woven" and "7GG";
\* style 1, which carries the style_id text the variant copied, still has "Knit"
C27_Witness ==
    /\ last.op = "get_style_variant" /\ last.code = 200
    /\ variants[last.id].style_summary_id = 2
    /\ last.body.style_category = "Woven" /\ last.body.gauge = "7GG"
    /\ 1 \in DOMAIN styles /\ styles[1].style_id = variants[last.id].style_id
    /\ styles[1].product_category = "Knit"

(***************************************************************************)
(* C28.  GET / : the samples list.                                         *)
(***************************************************************************)
\* what class Sample defines: its columns, its two relationships and its one property
SampleAttributes ==
    {"id", "sample_id", "buyer_id", "style_id", "sample_type", "sample_description", "item",
     "gauge", "worksheet_rcv_date", "yarn_rcv_date", "required_date", "color",
     "assigned_designer", "required_sample_quantity", "round", "notes", "submit_status",
     "created_at", "updated_at", "style", "operations", "style_name"}

\* joinedload(Sample.buyer), joinedload(Sample.style): the attributes the
\* expression reads off the class; reading one the class lacks raises AttributeError
joinedload_attributes == {"buyer", "style"}

\* Sample.style_name: self.style.style_name if self.style else None
style_name(sample) ==
    IF sample.style_id \in DOMAIN styles THEN styles[sample.style_id].style_name ELSE NULL

\* if buyer_id: -- None and 0 are false
buyer_filter(buyer_id) ==
    IF buyer_id # None /\ buyer_id[1] # 0
    THEN {i \in DOMAIN samples : samples[i].buyer_id = buyer_id[1]}
    ELSE DOMAIN samples

\* GET /.  No try/except: an exception in the route surfaces as a 500.
get_samples(buyer_id, skip, lim) ==
    LET body(rows) == [kind |-> "samples", buyer_id |-> buyer_id, skip |-> skip,
                       limit |-> lim, rows |-> rows]
    IN  /\ last' =
              IF ~query_valid(skip, lim)
              THEN Resp("get_samples", 0, 422, body(<< >>))
              ELSE IF ~(joinedload_attributes \subseteq SampleAttributes)
              THEN Resp("get_samples", 0, 500, body(<< >>))
              ELSE LET ids == limit(offset(order_by_id_desc(buyer_filter(buyer_id)), skip), lim)
                   IN  Resp("get_samples", 0, 200,
                            body([k \in DOMAIN ids |->
                                    [id |-> ids[k], row |-> samples[ids[k]],
                                     style_name |-> style_name(samples[ids[k]])]]))
        /\ UNCHANGED <<Store, seq, reqs, deletedStyles, sessions, boot>>

ListSampleIds == 1..MaxListSampleId
ListSampleKeys == {"SMP-1", "SMP-2"}
ListSamplePayloads ==
    Payloads(SampleRequired, {}, [LifecycleSampleValues EXCEPT !.buyer_id = {1, 2}])
ListBuyerIds == {None, Some(0), Some(1), Some(2)}
ListSampleSkips == {-1, 0, 1}
ListSampleLimits == {0, 1, limit_le}

NextSampleList ==
    \/ \E p \in LifecycleStylePayloads : styles = Empty /\ create_style(p)
    \/ \E p \in ListSamplePayloads : NextId("samples") <= MaxListSampleId /\ create_sample(p)
    \/ \E b \in ListBuyerIds, skip \in ListSampleSkips, lim \in ListSampleLimits :
          get_samples(b, skip, lim)
    \/ \E id \in ListSampleIds : get_sample(id)
    \/ \E sid \in ListSampleKeys : get_sample_by_sample_id(sid)

SpecSampleList == Init /\ [][NextSampleList]_vars

\* C28: get_samples with a buyer_id filter b, skip s >= 0 and 1 <= limit <= 10000
\* answers 200 with exactly the stored samples whose buyer_id is b, in
\* descending id order without the first s, at most limit of them, each with the
\* style_name of its style; and a stored sample is answered by get_sample under
\* its numeric id and by get_sample_by_sample_id under its sample_id text.
C28_BuyerFilterListsSamples ==
    /\ (/\ last.op = "get_samples"
        /\ last.body.buyer_id # None /\ last.body.buyer_id[1] # 0
        /\ last.body.skip >= 0 /\ last.body.limit >= 1 /\ last.body.limit <= 10000) =>
          LET b == last.body
              match == {i \in DOMAIN samples : samples[i].buyer_id = b.buyer_id[1]}
              n == Cardinality(match)
          IN  /\ last.code = 200
              /\ Len(b.rows) = IF n - b.skip <= 0 THEN 0
                               ELSE IF n - b.skip < b.limit THEN n - b.skip ELSE b.limit
              /\ \A k \in DOMAIN b.rows :
                    /\ b.rows[k].id \in match
                    /\ b.rows[k].row = samples[b.rows[k].id]
                    /\ b.rows[k].style_name = styles[b.rows[k].row.style_id].style_name
                    /\ Cardinality({i \in match : i > b.rows[k].id}) = b.skip + k - 1
    /\ (last.op = "get_sample" /\ last.id \in DOMAIN samples) =>
          last.code = 200 /\ last.body.row = samples[last.id]
    /\ (/\ last.op = "get_sample_by_sample_id"
        /\ \E i \in DOMAIN samples : samples[i].sample_id = last.id) =>
          /\ last.code = 200
          /\ \E i \in DOMAIN samples :
                samples[i].sample_id = last.id /\ last.body.row = samples[i]

(***************************************************************************)
(* C29.  What a PUT /{sample_id} body can reach.                           *)
(***************************************************************************)
\* mutant: SampleUpdate declares the fields of SampleBase as well
SampleUpdateFields_WithSampleBase ==
    {"sample_type", "sample_description", "item", "gauge", "yarn_rcv_date", "required_date",
     "color", "assigned_designer", "required_sample_quantity", "notes", "submit_status",
     "sample_id", "buyer_id", "style_id", "worksheet_rcv_date", "round"}

\* class SampleUpdate(BaseModel): its declared fields
SampleUpdateFields ==
    {"sample_type", "sample_description", "item", "gauge", "yarn_rcv_date", "required_date",
     "color", "assigned_designer", "required_sample_quantity", "notes", "submit_status"}

\* sample_data: SampleUpdate -- the request body as pydantic parses it: keys
\* the class does not declare are ignored (no extra="forbid")
SampleUpdate(body) == [f \in DOMAIN body \cap SampleUpdateFields |-> body[f]]

\* PUT /{sample_id} with a JSON body
update_sample_request(id, body) == update_sample(id, SampleUpdate(body))

FrameSampleIds == 1..MaxFrameSampleId
FrameSamplePayloads == Payloads(SampleRequired, {"worksheet_rcv_date"}, LifecycleSampleValues)
FrameBodyValues ==
    [sample_id |-> {"SMP-9"}, buyer_id |-> {2}, style_id |-> {2},
     worksheet_rcv_date |-> {"2025-05-05"}, round |-> {0},
     submit_status |-> {REJECT_REMAKE, "Approve"}, notes |-> {"redo"}]
\* bodies of declared fields only, and bodies that also carry the five fields
\* SampleUpdate does not declare
FrameBodies ==
    Payloads({}, {"submit_status", "notes"}, FrameBodyValues)
    \cup Payloads({"sample_id", "buyer_id", "style_id", "worksheet_rcv_date", "round"},
                  {"submit_status", "notes"}, FrameBodyValues)

NextFrame ==
    \/ \E p \in LifecycleStylePayloads : styles = Empty /\ create_style(p)
    \/ \E p \in FrameSamplePayloads : NextId("samples") <= MaxFrameSampleId /\ create_sample(p)
    \/ \E id \in FrameSampleIds, body \in FrameBodies :
          RoundBelowCap(id, SampleUpdate(body)) /\ update_sample_request(id, body)

SpecFrame == Init /\ [][NextFrame]_vars

\* C29: no update_sample request changes the sample_id, buyer_id, style_id or
\* worksheet_rcv_date of a stored sample, whatever its body holds; the round of
\* a stored sample stays or grows by exactly 1, it grows only in an accepted
\* update whose body set submit_status to "Reject and Request for remake", and
\* every such accepted update grows it, also when the stored submit_status
\* already was that value.
C29_UpdateKeepsIdentityAndRound ==
    [][/\ \A i \in DOMAIN samples :
             /\ i \in DOMAIN samples'
             /\ samples'[i].sample_id = samples[i].sample_id
             /\ samples'[i].buyer_id = samples[i].buyer_id
             /\ samples'[i].style_id = samples[i].style_id
             /\ samples'[i].worksheet_rcv_date = samples[i].worksheet_rcv_date
             /\ \/ samples'[i].round = samples[i].round
                \/ /\ samples'[i].round = samples[i].round + 1
                   /\ last'.op = "update_sample" /\ last'.id = i /\ last'.code = 200
                   /\ samples'[i].submit_status = REJECT_REMAKE
       /\ \A id \in FrameSampleIds, body \in FrameBodies :
             (/\ update_sample_request(id, body)
              /\ last'.code = 200
              /\ "submit_status" \in DOMAIN body
              /\ body.submit_status = REJECT_REMAKE) =>
                samples'[id].round = samples[id].round + 1]_vars

\* a sample created as SMP-1 of buyer 1 and style 1 with worksheet date
\* 2024-01-01 and round 1 stands at round 3 after an accepted update that
\* rejected it for remake, with its identity as created
C29_Witness ==
    /\ last.op = "update_sample" /\ last.code = 200
    /\ last.id \in DOMAIN samples
    /\ samples[last.id].round = 3
    /\ samples[last.id].submit_status = REJECT_REMAKE
    /\ samples[last.id].sample_id = "SMP-1"
    /\ samples[last.id].buyer_id = 1
    /\ samples[last.id].style_id = 1
    /\ samples[last.id].worksheet_rcv_date = "2024-01-01"

====
